---- MODULE Spec2Model ----
(***************************************************************************)
(* Trajectory capture of the Marlo integration: the trajectory store and   *)
(* the event buffer (trajectory.ts), the client singleton (client.ts), the *)
(* capture hooks (capture-hooks.ts) and the agent-event listener with its  *)
(* text debouncer (event-listener.ts).                                     *)
(*                                                                         *)
(* The handlers are translated as functions from a record of the program's *)
(* variables (the "world", w) to the record after the handler has run, so  *)
(* that a handler that calls another one is the composition of the two.    *)
(* One action of the state machine is one synchronous run of an exported   *)
(* operation, of a timer callback or of a promise continuation.            *)
(***************************************************************************)
EXTENDS Integers, Sequences, FiniteSets, TLC

VARIABLES
  eventBuffer,           \* trajectory.ts: let eventBuffer
  flushTimer,            \* trajectory.ts: let flushTimer (0 is null)
  activeTrajectories,    \* trajectory.ts: Map sessionKey -> ActiveTrajectory
  runIdCounter,          \* trajectory.ts: let runIdCounter
  clientInstance,        \* client.ts: let clientInstance
  toolStartTimes,        \* event-listener.ts: Map toolCallId -> start time
  toolInputsById,        \* event-listener.ts: Map toolCallId -> args
  runIdToSession,        \* event-listener.ts: Map runId -> sessionKey
  lastLLMTextBySession,  \* event-listener.ts: Map sessionKey -> text
  llmDebounceTimers,     \* event-listener.ts: Map sessionKey -> timer handle
  llmPendingData,        \* event-listener.ts: Map sessionKey -> pending payload
  unsubscribe,           \* event-listener.ts: let unsubscribe (FALSE is null)
  uuidSeq,               \* number of identifiers randomUUID() has handed out
  timerSeq,              \* number of handles setTimeout() has handed out
  signalSeq,             \* number of agent events emitAgentEvent() has delivered
  now,                   \* the clock read by Date.now()
  flushed,               \* every batch flushBuffer swapped out, with its fate
  shutdown,              \* the shutdown suspended at `await flushBuffer()`
  learningCache,         \* learnings.ts: Map learningKey -> CacheEntry, in insertion order
  learningsFile,         \* the version in the marker of LEARNINGS.md (0: no file, no marker)
  captures,              \* the startMessageCapture calls suspended at their await
  last                   \* the operation that ran last, with its arguments

vars == <<eventBuffer, flushTimer, activeTrajectories, runIdCounter, clientInstance,
          toolStartTimes, toolInputsById, runIdToSession, lastLLMTextBySession,
          llmDebounceTimers, llmPendingData, unsubscribe, uuidSeq, timerSeq,
          signalSeq, now, flushed, shutdown, learningCache, learningsFile,
          captures, last>>

(***************************************************************************)
(* Bounds of the model.                                                    *)
(***************************************************************************)
\* events created in one behaviour
MaxEvents == 3
\* setTimeout() calls in one behaviour
MaxTimers == 4
\* value of the clock at module load
StartTime == 1
\* concurrent startMessageCapture calls
MaxCalls == 2
\* length of the longest text fragment of a streamed response
MaxText == 2
\* agent events delivered in one behaviour
MaxSignals == 2
\* clock ticks in one behaviour
MaxTicks == 1
\* BUFFER_SETTINGS.maxSize, 100 in constants.ts, scaled down so that a full
\* buffer is reached within MaxEvents events
maxSize == 3

\* LEARNING_CACHE.ttlMs and LEARNING_CACHE.maxEntries, 60000 and 100 in
\* constants.ts, scaled down so that an entry expires within MaxTicks ticks and
\* the second key overflows the cache
LEARNING_CACHE == [ttlMs |-> 1, maxEntries |-> 1]

Sessions == {"s1", "s2"}
Undefined == "undefined"
Null == "null"
MOLTBOT_AGENT_ID == "moltbot"
AgentIds == {Undefined}
Statuses == {"success", "error", "cancelled"}
Calls == 1..MaxCalls

\* no shutdown is suspended: `awaiting` is the position in `flushed` of the batch
\* whose send the shutdown awaits, `marlo` whether shutdownMarlo called it
NoShutdown == [awaiting |-> 0, marlo |-> FALSE]

(***************************************************************************)
(* JavaScript Map operations on functions with a finite domain.            *)
(***************************************************************************)
EmptyMap == <<>>
Has(m, k) == k \in DOMAIN m
Put(m, k, v) == [x \in (DOMAIN m) \cup {k} |-> IF x = k THEN v ELSE m[x]]
Del(m, k) == [x \in (DOMAIN m) \ {k} |-> m[x]]

(***************************************************************************)
(* The world record and its commit to the variables.                       *)
(***************************************************************************)
World ==
  [eventBuffer |-> eventBuffer, flushTimer |-> flushTimer,
   activeTrajectories |-> activeTrajectories, runIdCounter |-> runIdCounter,
   clientInstance |-> clientInstance, toolStartTimes |-> toolStartTimes,
   toolInputsById |-> toolInputsById, runIdToSession |-> runIdToSession,
   lastLLMTextBySession |-> lastLLMTextBySession,
   llmDebounceTimers |-> llmDebounceTimers, llmPendingData |-> llmPendingData,
   unsubscribe |-> unsubscribe, uuidSeq |-> uuidSeq, timerSeq |-> timerSeq,
   signalSeq |-> signalSeq, now |-> now, flushed |-> flushed,
   shutdown |-> shutdown, learningCache |-> learningCache,
   learningsFile |-> learningsFile]

Commit(w) ==
  /\ eventBuffer' = w.eventBuffer
  /\ flushTimer' = w.flushTimer
  /\ activeTrajectories' = w.activeTrajectories
  /\ runIdCounter' = w.runIdCounter
  /\ clientInstance' = w.clientInstance
  /\ toolStartTimes' = w.toolStartTimes
  /\ toolInputsById' = w.toolInputsById
  /\ runIdToSession' = w.runIdToSession
  /\ lastLLMTextBySession' = w.lastLLMTextBySession
  /\ llmDebounceTimers' = w.llmDebounceTimers
  /\ llmPendingData' = w.llmPendingData
  /\ unsubscribe' = w.unsubscribe
  /\ uuidSeq' = w.uuidSeq
  /\ timerSeq' = w.timerSeq
  /\ signalSeq' = w.signalSeq
  /\ now' = w.now
  /\ flushed' = w.flushed
  /\ shutdown' = w.shutdown
  /\ learningCache' = w.learningCache
  /\ learningsFile' = w.learningsFile

RECURSIVE CountEvents(_)
CountEvents(batches) ==
  IF batches = <<>> THEN 0 ELSE Len(batches[1].events) + CountEvents(Tail(batches))

\* room for the event and the timer handle one handler may create
Room(w) ==
  /\ CountEvents(w.flushed) + Len(w.eventBuffer) + 1 <= MaxEvents
  /\ w.timerSeq + 1 <= MaxTimers

(***************************************************************************)
(* trajectory.ts                                                           *)
(***************************************************************************)
\* randomUUID(): the next unused identifier
randomUUID(w) == w.uuidSeq + 1
useUuid(w) == [w EXCEPT !.uuidSeq = @ + 1]

\* setTimeout(): a handle no earlier call returned
setTimeout(w) == w.timerSeq + 1

createEvent(w, trajectory, eventType, payload) ==
  [event_id |-> randomUUID(w),
   run_id |-> trajectory.runId,
   agent_id |-> trajectory.agentId,
   parent_agent_id |-> Null,
   invocation_id |-> <<trajectory.runId, trajectory.taskId>>,
   task_id |-> trajectory.taskId,
   event_type |-> eventType,
   payload |-> payload,
   created_at |-> w.now]

\* flushBuffer that hands the buffer over without replacing it by a fresh one
flushBuffer_keepsBuffer(w) ==
  LET w1 == [w EXCEPT !.flushTimer = 0] IN
  IF Len(w1.eventBuffer) = 0 THEN w1
  ELSE [w1 EXCEPT !.flushed = Append(@, [events |-> w1.eventBuffer,
                     fate |-> IF w1.clientInstance = Null THEN "discarded" ELSE "inflight"])]

\* flushBuffer that looks for the client before it swaps the buffer out
flushBuffer_clientFirst(w) ==
  LET w1 == [w EXCEPT !.flushTimer = 0] IN
  IF Len(w1.eventBuffer) = 0 \/ w1.clientInstance = Null THEN w1
  ELSE [w1 EXCEPT !.eventBuffer = <<>>,
                  !.flushed = Append(@, [events |-> w1.eventBuffer, fate |-> "inflight"])]

\* flushBuffer that leaves its timer set
flushBuffer_keepsTimer(w) ==
  IF Len(w.eventBuffer) = 0 THEN w
  ELSE LET events == w.eventBuffer
           w2 == [w EXCEPT !.eventBuffer = <<>>] IN
       IF w2.clientInstance = Null
       THEN [w2 EXCEPT !.flushed = Append(@, [events |-> events, fate |-> "discarded"])]
       ELSE [w2 EXCEPT !.flushed = Append(@, [events |-> events, fate |-> "inflight"])]

\* flushBuffer without the early return on an empty buffer
flushBuffer_handsEmptyBatch(w) ==
  LET w1 == [w EXCEPT !.flushTimer = 0]
      events == w1.eventBuffer
      w2 == [w1 EXCEPT !.eventBuffer = <<>>] IN
  IF w2.clientInstance = Null
  THEN [w2 EXCEPT !.flushed = Append(@, [events |-> events, fate |-> "discarded"])]
  ELSE [w2 EXCEPT !.flushed = Append(@, [events |-> events, fate |-> "inflight"])]

\* the synchronous part of flushBuffer, up to `await client.ingestEvents(events)`
flushBuffer(w) ==
  LET w1 == [w EXCEPT !.flushTimer = 0] IN
  IF Len(w1.eventBuffer) = 0 THEN w1
  ELSE LET events == w1.eventBuffer
           w2 == [w1 EXCEPT !.eventBuffer = <<>>] IN
       IF w2.clientInstance = Null
       THEN [w2 EXCEPT !.flushed = Append(@, [events |-> events, fate |-> "discarded"])]
       ELSE [w2 EXCEPT !.flushed = Append(@, [events |-> events, fate |-> "inflight"])]

\* bufferEvent that flushes only once the buffer has grown beyond maxSize
bufferEvent_offByOne(w, event) ==
  LET w1 == [w EXCEPT !.eventBuffer = Append(@, event)]
      w2 == IF w1.flushTimer = 0
            THEN [w1 EXCEPT !.flushTimer = setTimeout(w1), !.timerSeq = @ + 1]
            ELSE w1 IN
  IF Len(w2.eventBuffer) > maxSize THEN flushBuffer(w2) ELSE w2

\* bufferEvent that never starts the flush timer
bufferEvent_noTimer(w, event) ==
  LET w1 == [w EXCEPT !.eventBuffer = Append(@, event)] IN
  IF Len(w1.eventBuffer) >= maxSize THEN flushBuffer(w1) ELSE w1

\* bufferEvent that puts the event at the front of the buffer
bufferEvent_unshift(w, event) ==
  LET w1 == [w EXCEPT !.eventBuffer = <<event>> \o @]
      w2 == IF w1.flushTimer = 0
            THEN [w1 EXCEPT !.flushTimer = setTimeout(w1), !.timerSeq = @ + 1]
            ELSE w1 IN
  IF Len(w2.eventBuffer) >= maxSize THEN flushBuffer(w2) ELSE w2

bufferEvent(w, event) ==
  LET w1 == [w EXCEPT !.eventBuffer = Append(@, event)]
      w2 == IF w1.flushTimer = 0
            THEN [w1 EXCEPT !.flushTimer = setTimeout(w1), !.timerSeq = @ + 1]
            ELSE w1 IN
  IF Len(w2.eventBuffer) >= maxSize THEN flushBuffer(w2) ELSE w2

hasActiveTrajectory(w, sessionKey) == Has(w.activeTrajectories, sessionKey)

\* startTrajectory that first ends the trajectory it is about to replace
startTrajectory_endsPrevious(w, params) ==
  LET w0 == IF Has(w.activeTrajectories, params.sessionKey)
            THEN bufferEvent(useUuid(w),
                   createEvent(w, w.activeTrajectories[params.sessionKey], "task_end",
                               [status |-> "cancelled"]))
            ELSE w
      runId == w0.runIdCounter
      taskId == randomUUID(w0)
      agentId == IF params.agentId = Undefined THEN MOLTBOT_AGENT_ID ELSE params.agentId
      trajectory == [runId |-> runId, sessionKey |-> params.sessionKey,
                     taskId |-> taskId, agentId |-> agentId,
                     startedAt |-> w0.now, events |-> <<>>]
      w1 == [useUuid(w0) EXCEPT !.runIdCounter = @ + 1,
                                !.activeTrajectories = Put(@, params.sessionKey, trajectory)]
      event == createEvent(w1, trajectory, "task_start", [task |-> params.task])
  IN bufferEvent(useUuid(w1), event)

\* startTrajectory that reads runIdCounter without incrementing it
startTrajectory_reusesRunId(w, params) ==
  LET runId == w.runIdCounter
      taskId == randomUUID(w)
      agentId == IF params.agentId = Undefined THEN MOLTBOT_AGENT_ID ELSE params.agentId
      trajectory == [runId |-> runId, sessionKey |-> params.sessionKey,
                     taskId |-> taskId, agentId |-> agentId,
                     startedAt |-> w.now, events |-> <<>>]
      w1 == [useUuid(w) EXCEPT !.activeTrajectories = Put(@, params.sessionKey, trajectory)]
      event == createEvent(w1, trajectory, "task_start", [task |-> params.task])
  IN bufferEvent(useUuid(w1), event)

startTrajectory(w, params) ==
  LET runId == w.runIdCounter
      taskId == randomUUID(w)
      agentId == IF params.agentId = Undefined THEN MOLTBOT_AGENT_ID ELSE params.agentId
      trajectory == [runId |-> runId, sessionKey |-> params.sessionKey,
                     taskId |-> taskId, agentId |-> agentId,
                     startedAt |-> w.now, events |-> <<>>]
      w1 == [useUuid(w) EXCEPT !.runIdCounter = @ + 1,
                               !.activeTrajectories = Put(@, params.sessionKey, trajectory)]
      event == createEvent(w1, trajectory, "task_start", [task |-> params.task])
  IN bufferEvent(useUuid(w1), event)

\* endTrajectory that leaves the trajectory in the store
endTrajectory_keepsTrajectory(w, params) ==
  IF ~Has(w.activeTrajectories, params.sessionKey) THEN w
  ELSE LET trajectory == w.activeTrajectories[params.sessionKey]
           event == createEvent(w, trajectory, "task_end", [status |-> params.status])
       IN flushBuffer(bufferEvent(useUuid(w), event))

\* endTrajectory that empties the store instead of deleting one key
endTrajectory_clearsStore(w, params) ==
  IF ~Has(w.activeTrajectories, params.sessionKey) THEN w
  ELSE LET trajectory == w.activeTrajectories[params.sessionKey]
           event == createEvent(w, trajectory, "task_end", [status |-> params.status])
           w1 == bufferEvent(useUuid(w), event)
       IN flushBuffer([w1 EXCEPT !.activeTrajectories = EmptyMap])

\* endTrajectory without its closing flushBuffer()
endTrajectory_noFlush(w, params) ==
  IF ~Has(w.activeTrajectories, params.sessionKey) THEN w
  ELSE LET trajectory == w.activeTrajectories[params.sessionKey]
           event == createEvent(w, trajectory, "task_end", [status |-> params.status])
           w1 == bufferEvent(useUuid(w), event)
       IN [w1 EXCEPT !.activeTrajectories = Del(@, params.sessionKey)]

\* endTrajectory that flushes also when the session has no trajectory
endTrajectory_flushesAlways(w, params) ==
  IF ~Has(w.activeTrajectories, params.sessionKey) THEN flushBuffer(w)
  ELSE LET trajectory == w.activeTrajectories[params.sessionKey]
           event == createEvent(w, trajectory, "task_end", [status |-> params.status])
           w1 == bufferEvent(useUuid(w), event)
           w2 == [w1 EXCEPT !.activeTrajectories = Del(@, params.sessionKey)]
       IN flushBuffer(w2)

endTrajectory(w, params) ==
  IF ~Has(w.activeTrajectories, params.sessionKey) THEN w
  ELSE LET trajectory == w.activeTrajectories[params.sessionKey]
           event == createEvent(w, trajectory, "task_end", [status |-> params.status])
           w1 == bufferEvent(useUuid(w), event)
           w2 == [w1 EXCEPT !.activeTrajectories = Del(@, params.sessionKey)]
       IN flushBuffer(w2)

logLLMCall(w, params) ==
  IF ~Has(w.activeTrajectories, params.sessionKey) THEN w
  ELSE LET trajectory == w.activeTrajectories[params.sessionKey]
           event == createEvent(w, trajectory, "llm_call",
                      [model_params |-> [model |-> params.model,
                                         provider |-> params.provider],
                       response |-> params.response, usage |-> params.usage,
                       reasoning |-> params.reasoning])
       IN bufferEvent(useUuid(w), event)

logToolCall(w, params) ==
  IF ~Has(w.activeTrajectories, params.sessionKey) THEN w
  ELSE LET trajectory == w.activeTrajectories[params.sessionKey]
           event == createEvent(w, trajectory, "tool_call",
                      [tool_name |-> params.toolName, tool_input |-> params.toolInput,
                       tool_output |-> params.toolOutput, error |-> params.error,
                       duration_ms |-> params.durationMs])
       IN bufferEvent(useUuid(w), event)

\* logAgentDefinition that buffers the event also when no trajectory is active
logAgentDefinition_noGuard(w, params) ==
  LET trajectory == IF Has(w.activeTrajectories, params.sessionKey)
                    THEN w.activeTrajectories[params.sessionKey]
                    ELSE [runId |-> 0, sessionKey |-> params.sessionKey, taskId |-> 0,
                          agentId |-> MOLTBOT_AGENT_ID, startedAt |-> w.now,
                          events |-> <<>>]
      event == createEvent(w, trajectory, "agent_definition",
                 [agent_id |-> params.agentId])
  IN bufferEvent(useUuid(w), event)

logAgentDefinition(w, params) ==
  IF ~Has(w.activeTrajectories, params.sessionKey) THEN w
  ELSE LET trajectory == w.activeTrajectories[params.sessionKey]
           event == createEvent(w, trajectory, "agent_definition",
                      [agent_id |-> params.agentId])
       IN bufferEvent(useUuid(w), event)

(***************************************************************************)
(* Initial state: the module-level initialisers.                           *)
(***************************************************************************)
Init ==
  /\ eventBuffer = <<>>
  /\ flushTimer = 0
  /\ activeTrajectories = EmptyMap
  /\ now = StartTime
  /\ runIdCounter = StartTime
  /\ clientInstance = Null
  /\ toolStartTimes = EmptyMap
  /\ toolInputsById = EmptyMap
  /\ runIdToSession = EmptyMap
  /\ lastLLMTextBySession = EmptyMap
  /\ llmDebounceTimers = EmptyMap
  /\ llmPendingData = EmptyMap
  /\ unsubscribe = FALSE
  /\ uuidSeq = 0
  /\ timerSeq = 0
  /\ signalSeq = 0
  /\ flushed = <<>>
  /\ shutdown = NoShutdown
  /\ learningCache = <<>>
  /\ learningsFile = 0
  /\ captures = [c \in Calls |-> Null]
  /\ last = [op |-> "init", sessionKey |-> Null, active |-> FALSE, arg |-> Null]

(***************************************************************************)
(* Actions of the trajectory store and the buffer.                         *)
(***************************************************************************)
\* the record kept in `last`: the operation, the session key it was called with,
\* whether that session had an active trajectory when it was called, its argument
Op(name, sessionKey, arg) ==
  [op |-> name, sessionKey |-> sessionKey,
   active |-> hasActiveTrajectory(World, sessionKey), arg |-> arg]

InitMarloClient ==
  /\ clientInstance = Null
  /\ Commit([World EXCEPT !.clientInstance = "client"])
  /\ last' = Op("initMarloClient", Null, Null)
  /\ UNCHANGED captures

ShutdownMarloClient ==
  /\ clientInstance # Null
  /\ Commit([World EXCEPT !.clientInstance = Null])
  /\ last' = Op("shutdownMarloClient", Null, Null)
  /\ UNCHANGED captures

StartTrajectory ==
  \E sessionKey \in Sessions, agentId \in AgentIds :
    /\ Room(World)
    /\ Commit(startTrajectory(World, [sessionKey |-> sessionKey, task |-> "task",
                                      agentId |-> agentId]))
    /\ last' = Op("startTrajectory", sessionKey, Null)
    /\ UNCHANGED captures

EndTrajectory ==
  \E sessionKey \in Sessions, status \in Statuses :
    /\ Room(World)
    /\ Commit(endTrajectory(World, [sessionKey |-> sessionKey, status |-> status]))
    /\ last' = Op("endTrajectory", sessionKey, status)
    /\ UNCHANGED captures

LogLLMCall ==
  \E sessionKey \in Sessions :
    /\ Room(World)
    /\ Commit(logLLMCall(World, [sessionKey |-> sessionKey, model |-> Undefined,
                                 provider |-> Undefined,
                                 response |-> <<[text |-> <<"a">>]>>,
                                 usage |-> <<>>, reasoning |-> <<>>]))
    /\ last' = Op("logLLMCall", sessionKey, Null)
    /\ UNCHANGED captures

LogToolCall ==
  \E sessionKey \in Sessions :
    /\ Room(World)
    /\ Commit(logToolCall(World, [sessionKey |-> sessionKey, toolName |-> "search",
                                  toolInput |-> "x", toolOutput |-> "r",
                                  error |-> Undefined, durationMs |-> <<>>]))
    /\ last' = Op("logToolCall", sessionKey, Null)
    /\ UNCHANGED captures

LogAgentDefinition ==
  \E sessionKey \in Sessions :
    /\ Room(World)
    /\ Commit(logAgentDefinition(World, [sessionKey |-> sessionKey, agentId |-> "agent1"]))
    /\ last' = Op("logAgentDefinition", sessionKey, Null)
    /\ UNCHANGED captures

\* an explicit call of the exported flushBuffer
FlushBuffer ==
  /\ Commit(flushBuffer(World))
  /\ last' = Op("flushBuffer", Null, Null)
  /\ UNCHANGED captures

\* the callback of the timer set in bufferEvent
FlushTimerFire ==
  /\ flushTimer # 0
  /\ Commit(flushBuffer(World))
  /\ last' = Op("flushTimer", Null, Null)
  /\ UNCHANGED captures

\* shutdownTrajectoryCapture after `await flushBuffer()`, and, when shutdownMarlo
\* called it, the rest of shutdownMarlo: clearLearningsCache and
\* shutdownMarloClient
shutdownResumed(w) ==
  LET w1 == [w EXCEPT !.activeTrajectories = EmptyMap, !.shutdown = NoShutdown] IN
  IF w.shutdown.marlo THEN [w1 EXCEPT !.learningCache = <<>>, !.clientInstance = Null]
  ELSE w1

\* shutdownTrajectoryCapture that discards the trajectory state before the flush
shutdownTrajectoryCapture_clearsFirst(w, marlo) ==
  LET w1 == flushBuffer([w EXCEPT !.activeTrajectories = EmptyMap]) IN
  IF Len(w1.flushed) > Len(w.flushed) /\ w1.flushed[Len(w1.flushed)].fate = "inflight"
  THEN [w1 EXCEPT !.shutdown = [awaiting |-> Len(w1.flushed), marlo |-> marlo]]
  ELSE shutdownResumed([w1 EXCEPT !.shutdown = [awaiting |-> 0, marlo |-> marlo]])

\* shutdownTrajectoryCapture up to its await: flushBuffer runs to its own await
\* of client.ingestEvents, where the shutdown stays suspended until that send
\* settles; a flushBuffer that returns without sending lets it run on at once
shutdownTrajectoryCapture(w, marlo) ==
  LET w1 == flushBuffer(w) IN
  IF Len(w1.flushed) > Len(w.flushed) /\ w1.flushed[Len(w1.flushed)].fate = "inflight"
  THEN [w1 EXCEPT !.shutdown = [awaiting |-> Len(w1.flushed), marlo |-> marlo]]
  ELSE shutdownResumed([w1 EXCEPT !.shutdown = [awaiting |-> 0, marlo |-> marlo]])

\* the send of batch i has settled: the shutdown that awaits it runs on
settled(w, i) ==
  IF w.shutdown.awaiting = i THEN shutdownResumed(w) ELSE w

\* what `last` says of a settled send: the shutdown it let resolve, if any
resolves(i) ==
  IF shutdown.awaiting # i THEN Null
  ELSE IF shutdown.marlo THEN "shutdownMarlo" ELSE "shutdownTrajectoryCapture"

ShutdownTrajectoryCapture ==
  /\ shutdown.awaiting = 0
  /\ Commit(shutdownTrajectoryCapture(World, FALSE))
  /\ last' = Op("shutdownTrajectoryCapture", Null,
                IF shutdownTrajectoryCapture(World, FALSE).shutdown.awaiting = 0
                THEN "resolved" ELSE "suspended")
  /\ UNCHANGED captures

\* client.ingestEvents(events) resolves: flushBuffer's continuation has nothing to do
IngestResolve ==
  \E i \in DOMAIN flushed :
    /\ flushed[i].fate = "inflight"
    /\ Commit(settled([World EXCEPT !.flushed[i].fate = "ingested"], i))
    /\ last' = Op("ingestResolve", Null, resolves(i))
    /\ UNCHANGED captures

\* a catch block of flushBuffer that puts the failed batch back into the buffer
ingestRejected_requeues(w, i) ==
  [w EXCEPT !.flushed[i].fate = "rejected", !.eventBuffer = w.flushed[i].events \o @]

\* the catch block of flushBuffer for the batch flushed[i]: it logs a warning
ingestRejected(w, i) ==
  [w EXCEPT !.flushed[i].fate = "rejected"]

\* client.ingestEvents(events) rejects: the catch block logs a warning
IngestReject ==
  \E i \in DOMAIN flushed :
    /\ flushed[i].fate = "inflight"
    /\ Commit(settled(ingestRejected(World, i), i))
    /\ last' = Op("ingestReject", Null, resolves(i))
    /\ UNCHANGED captures

Next ==
  \/ InitMarloClient
  \/ ShutdownMarloClient
  \/ StartTrajectory
  \/ EndTrajectory
  \/ LogToolCall
  \/ FlushBuffer
  \/ FlushTimerFire

\* The store and the buffer as the calling layers drive them. The transport's
\* answers change nothing flushBuffer or its callers read, and are left to
\* SpecTransport.
Spec == Init /\ [][Next]_vars

NextTransport ==
  \/ InitMarloClient
  \/ StartTrajectory
  \/ LogToolCall
  \/ FlushBuffer
  \/ FlushTimerFire
  \/ IngestResolve
  \/ IngestReject

\* The buffer with the suspended sends of flushBuffer and their completion.
SpecTransport == Init /\ [][NextTransport]_vars

NextLog ==
  \/ InitMarloClient
  \/ StartTrajectory
  \/ EndTrajectory
  \/ LogLLMCall
  \/ LogToolCall
  \/ LogAgentDefinition
  \/ FlushTimerFire

\* The three log operations of the store between startTrajectory and endTrajectory.
SpecLog == Init /\ [][NextLog]_vars

(***************************************************************************)
(* client.ts getLearnings, learnings.ts, learnings-sync.ts                 *)
(***************************************************************************)
\* a version the server gives in updated_at, apart from every value of the clock
UpdatedAt == 100
\* what POST /learnings can answer: the request fails, a status that is not ok,
\* a body whose learning_state is null, a body with a learning state (an
\* optional value is a sequence; updated_at 0 is null)
Responses ==
  {[kind |-> "networkError", status |-> 0, learning_state |-> <<>>],
   [kind |-> "http", status |-> 404, learning_state |-> <<>>],
   [kind |-> "http", status |-> 500, learning_state |-> <<>>],
   [kind |-> "http", status |-> 200, learning_state |-> <<>>],
   [kind |-> "http", status |-> 200,
    learning_state |-> <<[active |-> <<"l1">>, updated_at |-> UpdatedAt]>>],
   [kind |-> "http", status |-> 200,
    learning_state |-> <<[active |-> <<"l1">>, updated_at |-> 0]>>]}
ProjectIds == {Undefined, "p"}

\* MarloClient.getLearnings: null (<<>>) unless the response is ok
getLearnings(response) ==
  IF response.kind = "networkError" THEN <<>>
  ELSE IF response.status # 200 THEN <<>>
  ELSE response.learning_state

\* MarloClient.getActiveLearningsForPrompt: state?.active ?? []
getActiveLearningsForPrompt(response) ==
  IF getLearnings(response) = <<>> THEN <<>> ELSE getLearnings(response)[1].active

learningKeyOf(params) ==
  LET agentId == IF params.agentId = Undefined THEN MOLTBOT_AGENT_ID ELSE params.agentId
  IN IF params.projectId # Undefined THEN <<params.projectId, agentId>> ELSE <<agentId>>

\* Map.get on the cache: the entries under the key (none or one)
cacheGet(cache, key) == SelectSeq(cache, LAMBDA e : e.key = key)

\* Map.set on the cache: an existing key keeps its place, a new one goes last
cacheSet(cache, entry) ==
  IF \E i \in DOMAIN cache : cache[i].key = entry.key
  THEN [i \in DOMAIN cache |-> IF cache[i].key = entry.key THEN entry ELSE cache[i]]
  ELSE Append(cache, entry)

\* the cache answers the call: it is not a forced refresh and the entry under
\* the key has not expired
cacheFresh(w, params) ==
  /\ ~params.forceRefresh
  /\ cacheGet(w.learningCache, learningKeyOf(params)) # <<>>
  /\ cacheGet(w.learningCache, learningKeyOf(params))[1].expiresAt > w.now

\* getActiveLearnings, with what the server answers to its request: the world it
\* leaves and the list it resolves to
getActiveLearnings(w, params, response) ==
  LET key == learningKeyOf(params)
      cached == cacheGet(w.learningCache, key) IN
  IF ~params.forceRefresh /\ cached # <<>> /\ cached[1].expiresAt > w.now
  THEN [w |-> w, result |-> cached[1].learnings]
  ELSE IF w.clientInstance = Null THEN [w |-> w, result |-> <<>>]
  ELSE LET learnings == getActiveLearningsForPrompt(response)
           set == cacheSet(w.learningCache,
                           [key |-> key, learnings |-> learnings,
                            expiresAt |-> w.now + LEARNING_CACHE.ttlMs])
           pruned == IF Len(set) > LEARNING_CACHE.maxEntries THEN Tail(set) ELSE set
       IN [w |-> [w EXCEPT !.learningCache = pruned], result |-> learnings]

\* syncLearningsFile after `await client.getLearnings(learningKey)`: the world
\* it leaves and the value it resolves to; writeLearningsFile catches the
\* failure of its own write
syncLearningsResumed(w, force, response, writeFails) ==
  LET learningState == getLearnings(response) IN
  IF learningState = <<>> THEN [w |-> w, result |-> FALSE]
  ELSE LET updatedAt == learningState[1].updated_at
           currentVersion == w.learningsFile
           written == IF updatedAt # 0 THEN updatedAt ELSE w.now IN
       IF ~force /\ currentVersion # 0 /\ currentVersion = updatedAt
       THEN [w |-> w, result |-> FALSE]
       ELSE [w |-> IF writeFails THEN w ELSE [w EXCEPT !.learningsFile = written],
             result |-> TRUE]

syncLearningsFile(w, force, response, writeFails) ==
  IF w.clientInstance = Null THEN [w |-> w, result |-> FALSE]
  ELSE syncLearningsResumed(w, force, response, writeFails)

clearLearningsCache(w) == [w EXCEPT !.learningCache = <<>>]

GetActiveLearnings ==
  \E projectId \in ProjectIds, forceRefresh \in BOOLEAN, response \in Responses :
    LET params == [agentId |-> Undefined, projectId |-> projectId,
                   forceRefresh |-> forceRefresh] IN
    /\ Commit(getActiveLearnings(World, params, response).w)
    /\ last' = Op("getActiveLearnings", Null,
                  IF cacheFresh(World, params) THEN "cached"
                  ELSE IF clientInstance = Null THEN "no client"
                  ELSE IF getLearnings(response) = <<>> THEN "no state"
                  ELSE "fetched")
    /\ UNCHANGED captures

ClearLearningsCache ==
  /\ learningCache # <<>>
  /\ Commit(clearLearningsCache(World))
  /\ last' = Op("clearLearningsCache", Null, Null)
  /\ UNCHANGED captures

(***************************************************************************)
(* capture-hooks.ts                                                        *)
(***************************************************************************)
\* isMarloReady(config); `enabled` is what isMarloEnabled(config) returns
isMarloReady(w, enabled) == enabled /\ w.clientInstance # Null

\* the checks that make startMessageCapture return false
skipsCapture(w, sessionKey, enabled, excluded) ==
  ~isMarloReady(w, enabled) \/ excluded \/ hasActiveTrajectory(w, sessionKey)

\* startMessageCapture up to its await (or to its end when it does not sync):
\* `excluded` is what isChannelExcluded returns, `sync` whether workspaceDir is
\* given and learnings.injectInPrompt is not false
StartMessageCapture ==
  \E c \in Calls, sessionKey \in Sessions, enabled, excluded, sync \in BOOLEAN :
    /\ captures[c] = Null
    /\ Room(World)
    /\ IF skipsCapture(World, sessionKey, enabled, excluded)
       THEN /\ Commit(World)
            /\ last' = Op("startMessageCapture", sessionKey, "skipped")
            /\ UNCHANGED captures
       ELSE IF sync
       THEN /\ Commit(World)
            /\ last' = Op("startMessageCapture", sessionKey, "suspended")
            /\ captures' = [captures EXCEPT ![c] = sessionKey]
       ELSE /\ Commit(startTrajectory(World, [sessionKey |-> sessionKey, task |-> "task",
                                              agentId |-> Undefined]))
            /\ last' = Op("startMessageCapture", sessionKey, "started")
            /\ UNCHANGED captures

\* startMessageCapture that gives up when the sync did not update the file
startMessageCaptureResumed_needsSync(w, sessionKey, response, writeFails) ==
  IF syncLearningsResumed(w, FALSE, response, writeFails).result
  THEN startTrajectory(syncLearningsResumed(w, FALSE, response, writeFails).w,
                       [sessionKey |-> sessionKey, task |-> "task", agentId |-> Undefined])
  ELSE w

\* startMessageCapture from the answer to the request of syncLearningsFile on:
\* the rest of the sync, then startTrajectory whatever the sync resolved to
startMessageCaptureResumed(w, sessionKey, response, writeFails) ==
  startTrajectory(syncLearningsResumed(w, FALSE, response, writeFails).w,
                  [sessionKey |-> sessionKey, task |-> "task", agentId |-> Undefined])

\* startMessageCapture after `await syncLearningsFile(...)`
StartMessageCaptureResume ==
  \E c \in Calls, response \in Responses, writeFails \in BOOLEAN :
    /\ captures[c] # Null
    /\ Room(World)
    /\ Commit(startMessageCaptureResumed(World, captures[c], response, writeFails))
    /\ last' = Op("startMessageCapture", captures[c], "started")
    /\ captures' = [captures EXCEPT ![c] = Null]

endMessageCapture(w, sessionKey, enabled, status) ==
  IF ~isMarloReady(w, enabled) \/ ~hasActiveTrajectory(w, sessionKey) THEN w
  ELSE endTrajectory(w, [sessionKey |-> sessionKey, status |-> status])

EndMessageCaptureSuccess ==
  \E sessionKey \in Sessions, enabled \in BOOLEAN :
    /\ Room(World)
    /\ Commit(endMessageCapture(World, sessionKey, enabled, "success"))
    /\ last' = Op("endMessageCaptureSuccess", sessionKey,
                  IF isMarloReady(World, enabled) THEN "success" ELSE "skipped")
    /\ UNCHANGED captures

EndMessageCaptureError ==
  \E sessionKey \in Sessions, enabled \in BOOLEAN :
    /\ Room(World)
    /\ Commit(endMessageCapture(World, sessionKey, enabled, "error"))
    /\ last' = Op("endMessageCaptureError", sessionKey,
                  IF isMarloReady(World, enabled) THEN "error" ELSE "skipped")
    /\ UNCHANGED captures

NextCapture ==
  \/ InitMarloClient
  \/ StartMessageCapture
  \/ StartMessageCaptureResume
  \/ EndMessageCaptureSuccess
  \/ EndMessageCaptureError
  \/ FlushTimerFire

\* The capture hooks as the message dispatch calls them: the store is reached
\* only through startMessageCapture and endMessageCapture*.
SpecCapture == Init /\ [][NextCapture]_vars

(***************************************************************************)
(* event-listener.ts                                                       *)
(***************************************************************************)
\* An optional value is a sequence: <<>> when it is undefined, <<v>> when it is v.
\* A text is the sequence of its characters, so "" is <<>>.
startsWith(s, prefix) ==
  Len(prefix) <= Len(s) /\ SubSeq(s, 1, Len(prefix)) = prefix

\* the text a model streams, fragment by fragment
Streamed == <<"a", "b", "c", "d">>
\* the fragments of the streamed text
Texts == {SubSeq(Streamed, 1, n) : n \in 1..MaxText}
Thinkings == {<<>>, <<"t">>}
Models == {Undefined, "m"}
Usages == {<<>>, <<[inputTokens |-> 0, outputTokens |-> 0]>>,
           <<[inputTokens |-> 1, outputTokens |-> 0]>>}
RunIds == {"r1"}
ToolCallIds == {Undefined, "c1"}
\* data of the assistant stream: a text fragment, alone or with thinking or with
\* usage counts, thinking alone, usage alone, nothing
AssistantData ==
  {[text |-> text, thinking |-> <<>>, model |-> model, provider |-> Undefined, usage |-> <<>>] :
     text \in Texts \cup {<<>>}, model \in Models}
  \cup {[text |-> text, thinking |-> <<"t">>, model |-> Undefined, provider |-> Undefined,
         usage |-> <<>>] : text \in {<<>>, <<"a">>}}
  \cup {[text |-> <<"a">>, thinking |-> <<>>, model |-> Undefined, provider |-> Undefined,
         usage |-> usage] : usage \in Usages \ {<<>>}}
\* data of the tool stream
TerminalPhases == {"result", "end", "error"}
\* a record of the data of a tool event
ToolDatum(phase, name, toolCallId, args, result, error, isError) ==
  [phase |-> phase, name |-> name, toolCallId |-> toolCallId, args |-> args,
   result |-> result, error |-> error, isError |-> isError]
\* start signals with and without a tool-call id and arguments, terminal signals
\* of each phase with their own arguments, failures with and without a message,
\* a signal of another phase, a signal without a tool name
ToolData ==
  {ToolDatum("start", "search", "c1", "x", Undefined, Undefined, FALSE),
   ToolDatum("start", "search", "c1", Undefined, Undefined, Undefined, FALSE),
   ToolDatum("start", "search", Undefined, "x", Undefined, Undefined, FALSE),
   ToolDatum("result", "search", "c1", "y", "r", Undefined, FALSE),
   ToolDatum("result", "search", Undefined, "y", "r", Undefined, FALSE),
   ToolDatum("end", "search", "c1", Undefined, "r", Undefined, TRUE),
   ToolDatum("error", "search", "c1", Undefined, Undefined, "boom", FALSE),
   ToolDatum("error", "search", "c1", "y", Undefined, Undefined, FALSE),
   ToolDatum("update", "search", "c1", "x", Undefined, Undefined, FALSE),
   ToolDatum("result", Undefined, "c1", "y", "r", Undefined, FALSE)}

\* usage && (usage.inputTokens || usage.outputTokens)
hasUsage(data) ==
  data.usage # <<>> /\ (data.usage[1].inputTokens # 0 \/ data.usage[1].outputTokens # 0)

\* handleAssistantEvent without the backward-delta check
handleAssistantEvent_noBackwardCheck(w, sessionKey, data) ==
  IF hasUsage(data)
  THEN logLLMCall(w, [sessionKey |-> sessionKey, model |-> data.model,
                      provider |-> data.provider, response |-> <<>>,
                      usage |-> data.usage, reasoning |-> <<>>])
  ELSE IF data.text = <<>> /\ data.thinking = <<>> THEN w
  ELSE IF data.thinking # <<>> /\ data.text = <<>>
  THEN logLLMCall(w, [sessionKey |-> sessionKey, model |-> data.model,
                      provider |-> data.provider, response |-> <<>>,
                      usage |-> <<>>, reasoning |-> <<[thinking |-> data.thinking]>>])
  ELSE [w EXCEPT
          !.llmPendingData = Put(@, sessionKey, [text |-> data.text, model |-> data.model,
                                                 provider |-> data.provider]),
          !.lastLLMTextBySession = Put(@, sessionKey, data.text),
          !.llmDebounceTimers = Put(@, sessionKey, setTimeout(w)),
          !.timerSeq = setTimeout(w)]

\* handleAssistantEvent that also hands the text of a usage signal to the debouncer
handleAssistantEvent_usageFallsThrough(w, sessionKey, data) ==
  LET w0 == IF hasUsage(data)
            THEN logLLMCall(w, [sessionKey |-> sessionKey, model |-> data.model,
                                provider |-> data.provider, response |-> <<>>,
                                usage |-> data.usage, reasoning |-> <<>>])
            ELSE w IN
  IF data.text = <<>> /\ data.thinking = <<>> THEN w0
  ELSE IF data.thinking # <<>> /\ data.text = <<>>
  THEN logLLMCall(w0, [sessionKey |-> sessionKey, model |-> data.model,
                       provider |-> data.provider, response |-> <<>>,
                       usage |-> <<>>, reasoning |-> <<[thinking |-> data.thinking]>>])
  ELSE LET lastText == IF Has(w0.lastLLMTextBySession, sessionKey)
                       THEN w0.lastLLMTextBySession[sessionKey] ELSE <<>>
       IN IF startsWith(lastText, data.text) THEN w0
          ELSE [w0 EXCEPT
                  !.llmPendingData = Put(@, sessionKey, [text |-> data.text,
                                                         model |-> data.model,
                                                         provider |-> data.provider]),
                  !.lastLLMTextBySession = Put(@, sessionKey, data.text),
                  !.llmDebounceTimers = Put(@, sessionKey, setTimeout(w0)),
                  !.timerSeq = setTimeout(w0)]

\* handleAssistantEvent that restarts the debounce timer when it logs reasoning
handleAssistantEvent_reasoningResetsTimer(w, sessionKey, data) ==
  IF hasUsage(data)
  THEN logLLMCall(w, [sessionKey |-> sessionKey, model |-> data.model,
                      provider |-> data.provider, response |-> <<>>,
                      usage |-> data.usage, reasoning |-> <<>>])
  ELSE IF data.text = <<>> /\ data.thinking = <<>> THEN w
  ELSE IF data.thinking # <<>> /\ data.text = <<>>
  THEN [logLLMCall(w, [sessionKey |-> sessionKey, model |-> data.model,
                       provider |-> data.provider, response |-> <<>>,
                       usage |-> <<>>, reasoning |-> <<[thinking |-> data.thinking]>>])
          EXCEPT !.llmDebounceTimers = Put(@, sessionKey, setTimeout(w)),
                 !.timerSeq = setTimeout(w)]
  ELSE LET lastText == IF Has(w.lastLLMTextBySession, sessionKey)
                       THEN w.lastLLMTextBySession[sessionKey] ELSE <<>>
       IN IF startsWith(lastText, data.text) THEN w
          ELSE [w EXCEPT
                  !.llmPendingData = Put(@, sessionKey, [text |-> data.text,
                                                         model |-> data.model,
                                                         provider |-> data.provider]),
                  !.lastLLMTextBySession = Put(@, sessionKey, data.text),
                  !.llmDebounceTimers = Put(@, sessionKey, setTimeout(w)),
                  !.timerSeq = setTimeout(w)]

\* handleAssistantEvent that settles the pending text before it logs reasoning
handleAssistantEvent_settlesFirst(w, sessionKey, data) ==
  IF hasUsage(data)
  THEN logLLMCall(w, [sessionKey |-> sessionKey, model |-> data.model,
                      provider |-> data.provider, response |-> <<>>,
                      usage |-> data.usage, reasoning |-> <<>>])
  ELSE IF data.text = <<>> /\ data.thinking = <<>> THEN w
  ELSE IF data.thinking # <<>> /\ data.text = <<>>
  THEN LET w1 == IF Has(w.llmPendingData, sessionKey)
                 THEN [logLLMCall(w, [sessionKey |-> sessionKey,
                                      model |-> w.llmPendingData[sessionKey].model,
                                      provider |-> w.llmPendingData[sessionKey].provider,
                                      response |-> <<[text |-> w.llmPendingData[sessionKey].text]>>,
                                      usage |-> <<>>, reasoning |-> <<>>])
                         EXCEPT !.llmPendingData = Del(@, sessionKey),
                                !.llmDebounceTimers = Del(@, sessionKey)]
                 ELSE w
       IN logLLMCall(w1, [sessionKey |-> sessionKey, model |-> data.model,
                          provider |-> data.provider, response |-> <<>>,
                          usage |-> <<>>, reasoning |-> <<[thinking |-> data.thinking]>>])
  ELSE LET lastText == IF Has(w.lastLLMTextBySession, sessionKey)
                       THEN w.lastLLMTextBySession[sessionKey] ELSE <<>>
       IN IF startsWith(lastText, data.text) THEN w
          ELSE [w EXCEPT
                  !.llmPendingData = Put(@, sessionKey, [text |-> data.text,
                                                         model |-> data.model,
                                                         provider |-> data.provider]),
                  !.lastLLMTextBySession = Put(@, sessionKey, data.text),
                  !.llmDebounceTimers = Put(@, sessionKey, setTimeout(w)),
                  !.timerSeq = setTimeout(w)]

handleAssistantEvent(w, sessionKey, data) ==
  IF hasUsage(data)
  THEN logLLMCall(w, [sessionKey |-> sessionKey, model |-> data.model,
                      provider |-> data.provider, response |-> <<>>,
                      usage |-> data.usage, reasoning |-> <<>>])
  ELSE IF data.text = <<>> /\ data.thinking = <<>> THEN w
  ELSE IF data.thinking # <<>> /\ data.text = <<>>
  THEN logLLMCall(w, [sessionKey |-> sessionKey, model |-> data.model,
                      provider |-> data.provider, response |-> <<>>,
                      usage |-> <<>>, reasoning |-> <<[thinking |-> data.thinking]>>])
  ELSE LET lastText == IF Has(w.lastLLMTextBySession, sessionKey)
                       THEN w.lastLLMTextBySession[sessionKey] ELSE <<>>
       IN IF startsWith(lastText, data.text) THEN w
          \* clearTimeout(existingTimer): the handle in the map is replaced
          ELSE [w EXCEPT
                  !.llmPendingData = Put(@, sessionKey, [text |-> data.text,
                                                         model |-> data.model,
                                                         provider |-> data.provider]),
                  !.lastLLMTextBySession = Put(@, sessionKey, data.text),
                  !.llmDebounceTimers = Put(@, sessionKey, setTimeout(w)),
                  !.timerSeq = setTimeout(w)]

\* a timer callback that returns at once when the session has no trajectory
llmDebounceTimeout_needsTrajectory(w, sessionKey) ==
  IF ~hasActiveTrajectory(w, sessionKey) THEN w
  ELSE LET w1 == IF Has(w.llmPendingData, sessionKey)
                 THEN LET pending == w.llmPendingData[sessionKey]
                          w0 == logLLMCall(w, [sessionKey |-> sessionKey,
                                               model |-> pending.model,
                                               provider |-> pending.provider,
                                               response |-> <<[text |-> pending.text]>>,
                                               usage |-> <<>>, reasoning |-> <<>>])
                      IN [w0 EXCEPT !.llmPendingData = Del(@, sessionKey)]
                 ELSE w
       IN [w1 EXCEPT !.llmDebounceTimers = Del(@, sessionKey)]

\* a timer callback that logs the pending text and leaves it pending
llmDebounceTimeout_keepsPending(w, sessionKey) ==
  LET w1 == IF Has(w.llmPendingData, sessionKey)
            THEN LET pending == w.llmPendingData[sessionKey]
                 IN logLLMCall(w, [sessionKey |-> sessionKey, model |-> pending.model,
                                   provider |-> pending.provider,
                                   response |-> <<[text |-> pending.text]>>,
                                   usage |-> <<>>, reasoning |-> <<>>])
            ELSE w
  IN [w1 EXCEPT !.llmDebounceTimers = Del(@, sessionKey)]

\* the callback handleAssistantEvent gives to setTimeout
llmDebounceTimeout(w, sessionKey) ==
  LET w1 == IF Has(w.llmPendingData, sessionKey)
            THEN LET pending == w.llmPendingData[sessionKey]
                     w0 == logLLMCall(w, [sessionKey |-> sessionKey, model |-> pending.model,
                                          provider |-> pending.provider,
                                          response |-> <<[text |-> pending.text]>>,
                                          usage |-> <<>>, reasoning |-> <<>>])
                 IN [w0 EXCEPT !.llmPendingData = Del(@, sessionKey)]
            ELSE w
  IN [w1 EXCEPT !.llmDebounceTimers = Del(@, sessionKey)]

\* handleToolEvent that reports a duration of 0 when no start was recorded
handleToolEvent_zeroDuration(w, sessionKey, data) ==
  IF data.name = Undefined THEN w
  ELSE IF data.phase = "start"
  THEN IF data.toolCallId # Undefined
       THEN [w EXCEPT !.toolStartTimes = Put(@, data.toolCallId, w.now),
                      !.toolInputsById = Put(@, data.toolCallId,
                                             IF data.args # Undefined THEN data.args ELSE "{}")]
       ELSE w
  ELSE IF data.phase \in {"result", "end", "error"}
  THEN LET timed == data.toolCallId # Undefined /\ Has(w.toolStartTimes, data.toolCallId)
           durationMs == IF timed THEN <<w.now - w.toolStartTimes[data.toolCallId]>> ELSE <<0>>
           w1 == IF timed THEN [w EXCEPT !.toolStartTimes = Del(@, data.toolCallId)] ELSE w
           args == IF data.args # Undefined THEN data.args ELSE "{}"
           toolInput == IF data.toolCallId # Undefined /\ Has(w.toolInputsById, data.toolCallId)
                        THEN w.toolInputsById[data.toolCallId] ELSE args
           w2 == IF data.toolCallId # Undefined
                 THEN [w1 EXCEPT !.toolInputsById = Del(@, data.toolCallId)] ELSE w1
           isError == data.phase = "error" \/ data.isError
       IN logToolCall(w2, [sessionKey |-> sessionKey, toolName |-> data.name,
                           toolInput |-> toolInput,
                           toolOutput |-> IF ~isError THEN data.result ELSE Undefined,
                           error |-> IF isError
                                     THEN IF data.error # Undefined THEN data.error
                                          ELSE IF data.result # Undefined THEN data.result
                                          ELSE "Unknown error"
                                     ELSE Undefined,
                           durationMs |-> durationMs])
  ELSE w

\* handleToolEvent that prefers the arguments of the terminal signal
handleToolEvent_terminalInput(w, sessionKey, data) ==
  IF data.name = Undefined THEN w
  ELSE IF data.phase = "start"
  THEN IF data.toolCallId # Undefined
       THEN [w EXCEPT !.toolStartTimes = Put(@, data.toolCallId, w.now),
                      !.toolInputsById = Put(@, data.toolCallId,
                                             IF data.args # Undefined THEN data.args ELSE "{}")]
       ELSE w
  ELSE IF data.phase \in {"result", "end", "error"}
  THEN LET timed == data.toolCallId # Undefined /\ Has(w.toolStartTimes, data.toolCallId)
           durationMs == IF timed THEN <<w.now - w.toolStartTimes[data.toolCallId]>> ELSE <<>>
           w1 == IF timed THEN [w EXCEPT !.toolStartTimes = Del(@, data.toolCallId)] ELSE w
           args == IF data.args # Undefined THEN data.args ELSE "{}"
           toolInput == IF data.args # Undefined THEN data.args
                        ELSE IF data.toolCallId # Undefined
                                /\ Has(w.toolInputsById, data.toolCallId)
                        THEN w.toolInputsById[data.toolCallId] ELSE "{}"
           w2 == IF data.toolCallId # Undefined
                 THEN [w1 EXCEPT !.toolInputsById = Del(@, data.toolCallId)] ELSE w1
           isError == data.phase = "error" \/ data.isError
       IN logToolCall(w2, [sessionKey |-> sessionKey, toolName |-> data.name,
                           toolInput |-> toolInput,
                           toolOutput |-> IF ~isError THEN data.result ELSE Undefined,
                           error |-> IF isError
                                     THEN IF data.error # Undefined THEN data.error
                                          ELSE IF data.result # Undefined THEN data.result
                                          ELSE "Unknown error"
                                     ELSE Undefined,
                           durationMs |-> durationMs])
  ELSE w

\* handleToolEvent that classifies by the phase alone and ignores data.isError
handleToolEvent_ignoresFlag(w, sessionKey, data) ==
  IF data.name = Undefined THEN w
  ELSE IF data.phase = "start"
  THEN IF data.toolCallId # Undefined
       THEN [w EXCEPT !.toolStartTimes = Put(@, data.toolCallId, w.now),
                      !.toolInputsById = Put(@, data.toolCallId,
                                             IF data.args # Undefined THEN data.args ELSE "{}")]
       ELSE w
  ELSE IF data.phase \in {"result", "end", "error"}
  THEN LET timed == data.toolCallId # Undefined /\ Has(w.toolStartTimes, data.toolCallId)
           durationMs == IF timed THEN <<w.now - w.toolStartTimes[data.toolCallId]>> ELSE <<>>
           w1 == IF timed THEN [w EXCEPT !.toolStartTimes = Del(@, data.toolCallId)] ELSE w
           args == IF data.args # Undefined THEN data.args ELSE "{}"
           toolInput == IF data.toolCallId # Undefined /\ Has(w.toolInputsById, data.toolCallId)
                        THEN w.toolInputsById[data.toolCallId] ELSE args
           w2 == IF data.toolCallId # Undefined
                 THEN [w1 EXCEPT !.toolInputsById = Del(@, data.toolCallId)] ELSE w1
           isError == data.phase = "error"
       IN logToolCall(w2, [sessionKey |-> sessionKey, toolName |-> data.name,
                           toolInput |-> toolInput,
                           toolOutput |-> IF ~isError THEN data.result ELSE Undefined,
                           error |-> IF isError
                                     THEN IF data.error # Undefined THEN data.error
                                          ELSE IF data.result # Undefined THEN data.result
                                          ELSE "Unknown error"
                                     ELSE Undefined,
                           durationMs |-> durationMs])
  ELSE w

handleToolEvent(w, sessionKey, data) ==
  IF data.name = Undefined THEN w
  ELSE IF data.phase = "start"
  THEN IF data.toolCallId # Undefined
       THEN [w EXCEPT !.toolStartTimes = Put(@, data.toolCallId, w.now),
                      !.toolInputsById = Put(@, data.toolCallId,
                                             IF data.args # Undefined THEN data.args ELSE "{}")]
       ELSE w
  ELSE IF data.phase \in {"result", "end", "error"}
  THEN LET timed == data.toolCallId # Undefined /\ Has(w.toolStartTimes, data.toolCallId)
           durationMs == IF timed THEN <<w.now - w.toolStartTimes[data.toolCallId]>> ELSE <<>>
           w1 == IF timed THEN [w EXCEPT !.toolStartTimes = Del(@, data.toolCallId)] ELSE w
           args == IF data.args # Undefined THEN data.args ELSE "{}"
           toolInput == IF data.toolCallId # Undefined /\ Has(w.toolInputsById, data.toolCallId)
                        THEN w.toolInputsById[data.toolCallId] ELSE args
           w2 == IF data.toolCallId # Undefined
                 THEN [w1 EXCEPT !.toolInputsById = Del(@, data.toolCallId)] ELSE w1
           isError == data.phase = "error" \/ data.isError
       IN logToolCall(w2, [sessionKey |-> sessionKey, toolName |-> data.name,
                           toolInput |-> toolInput,
                           toolOutput |-> IF ~isError THEN data.result ELSE Undefined,
                           error |-> IF isError
                                     THEN IF data.error # Undefined THEN data.error
                                          ELSE IF data.result # Undefined THEN data.result
                                          ELSE "Unknown error"
                                     ELSE Undefined,
                           durationMs |-> durationMs])
  ELSE w

handleLifecycleEvent(w, runId, sessionKey, data) ==
  IF data.phase = "end" THEN [w EXCEPT !.runIdToSession = Del(@, runId)] ELSE w

\* sessionKey ?? runIdToSession.get(runId), after the mapping is recorded
resolvedSessionKey(w, event) ==
  IF event.sessionKey # Undefined THEN event.sessionKey
  ELSE IF Has(w.runIdToSession, event.runId) THEN w.runIdToSession[event.runId]
  ELSE Undefined

\* handleAgentEvent that does not record the session of the run
handleAgentEvent_noMapping(w, event) ==
  IF w.clientInstance = Null THEN w
  ELSE LET w1 == w
           sessionKey == resolvedSessionKey(w1, event)
       IN IF sessionKey = Undefined THEN w1
          ELSE IF ~hasActiveTrajectory(w1, sessionKey) THEN w1
          ELSE CASE event.stream = "tool" -> handleToolEvent(w1, sessionKey, event.data)
                 [] event.stream = "assistant" -> handleAssistantEvent(w1, sessionKey, event.data)
                 [] event.stream = "lifecycle" ->
                      handleLifecycleEvent(w1, event.runId, sessionKey, event.data)
                 [] OTHER -> w1

\* handleAgentEvent that dispatches also when the session has no trajectory
handleAgentEvent_noActiveCheck(w, event) ==
  IF w.clientInstance = Null THEN w
  ELSE LET w1 == IF event.sessionKey # Undefined
                 THEN [w EXCEPT !.runIdToSession = Put(@, event.runId, event.sessionKey)]
                 ELSE w
           sessionKey == resolvedSessionKey(w1, event)
       IN IF sessionKey = Undefined THEN w1
          ELSE CASE event.stream = "tool" -> handleToolEvent(w1, sessionKey, event.data)
                 [] event.stream = "assistant" -> handleAssistantEvent(w1, sessionKey, event.data)
                 [] event.stream = "lifecycle" ->
                      handleLifecycleEvent(w1, event.runId, sessionKey, event.data)
                 [] OTHER -> w1

handleAgentEvent(w, event) ==
  IF w.clientInstance = Null THEN w
  ELSE LET w1 == IF event.sessionKey # Undefined
                 THEN [w EXCEPT !.runIdToSession = Put(@, event.runId, event.sessionKey)]
                 ELSE w
           sessionKey == resolvedSessionKey(w1, event)
       IN IF sessionKey = Undefined THEN w1
          ELSE IF ~hasActiveTrajectory(w1, sessionKey) THEN w1
          ELSE CASE event.stream = "tool" -> handleToolEvent(w1, sessionKey, event.data)
                 [] event.stream = "assistant" -> handleAssistantEvent(w1, sessionKey, event.data)
                 [] event.stream = "lifecycle" ->
                      handleLifecycleEvent(w1, event.runId, sessionKey, event.data)
                 [] OTHER -> w1

startEventListener(w) ==
  IF w.unsubscribe THEN w ELSE [w EXCEPT !.unsubscribe = TRUE]

\* stopEventListener that leaves the debounce timers scheduled
stopEventListener_keepsTimers(w) ==
  IF w.unsubscribe
  THEN [w EXCEPT !.unsubscribe = FALSE, !.toolStartTimes = EmptyMap,
                 !.toolInputsById = EmptyMap, !.runIdToSession = EmptyMap,
                 !.lastLLMTextBySession = EmptyMap, !.llmPendingData = EmptyMap]
  ELSE w

stopEventListener(w) ==
  IF w.unsubscribe
  THEN [w EXCEPT !.unsubscribe = FALSE, !.toolStartTimes = EmptyMap,
                 !.toolInputsById = EmptyMap, !.runIdToSession = EmptyMap,
                 !.lastLLMTextBySession = EmptyMap, !.llmDebounceTimers = EmptyMap,
                 !.llmPendingData = EmptyMap]
  ELSE w

\* flushPendingLLMEvents that leaves the debounce timer scheduled
flushPendingLLMEvents_keepsTimer(w, sessionKey) ==
  LET w2 == IF Has(w.llmPendingData, sessionKey)
            THEN LET pending == w.llmPendingData[sessionKey]
                     w0 == logLLMCall(w, [sessionKey |-> sessionKey, model |-> pending.model,
                                          provider |-> pending.provider,
                                          response |-> <<[text |-> pending.text]>>,
                                          usage |-> <<>>, reasoning |-> <<>>])
                 IN [w0 EXCEPT !.llmPendingData = Del(@, sessionKey)]
            ELSE w
  IN [w2 EXCEPT !.lastLLMTextBySession = Del(@, sessionKey)]

flushPendingLLMEvents(w, sessionKey) ==
  LET w1 == [w EXCEPT !.llmDebounceTimers = Del(@, sessionKey)]
      w2 == IF Has(w1.llmPendingData, sessionKey)
            THEN LET pending == w1.llmPendingData[sessionKey]
                     w0 == logLLMCall(w1, [sessionKey |-> sessionKey, model |-> pending.model,
                                           provider |-> pending.provider,
                                           response |-> <<[text |-> pending.text]>>,
                                           usage |-> <<>>, reasoning |-> <<>>])
                 IN [w0 EXCEPT !.llmPendingData = Del(@, sessionKey)]
            ELSE w1
  IN [w2 EXCEPT !.lastLLMTextBySession = Del(@, sessionKey)]

shutdownMarlo(w) ==
  shutdownTrajectoryCapture(stopEventListener(w), TRUE)

StartEventListener ==
  /\ Commit(startEventListener(World))
  /\ last' = Op("startEventListener", Null, Null)
  /\ UNCHANGED captures

StopEventListener ==
  /\ Commit(stopEventListener(World))
  /\ last' = Op("stopEventListener", Null,
                [subscribed |-> unsubscribe,
                 timers |-> Cardinality(DOMAIN llmDebounceTimers),
                 spans |-> Cardinality(DOMAIN toolStartTimes),
                 runs |-> Cardinality(DOMAIN runIdToSession)])
  /\ UNCHANGED captures

\* the record kept in `last` for emitAgentEvent(event): the session the handler
\* resolved, whether it had an active trajectory, and what the data carried
Signal(event, arg) ==
  Op(event.stream, resolvedSessionKey(handleAgentEvent(World, event), event), arg)

\* the text fragment the data hands to the debouncer, <<>> when it hands none
fragment(data) == IF hasUsage(data) THEN <<>> ELSE data.text

\* emitAgentEvent(event) on the assistant stream while the listener is subscribed
AssistantSignal ==
  \E runId \in RunIds, sessionKey \in Sessions \cup {Undefined}, data \in AssistantData :
    /\ unsubscribe
    /\ signalSeq < MaxSignals
    /\ Room(World)
    /\ Commit([handleAgentEvent(World, [runId |-> runId, sessionKey |-> sessionKey,
                                        stream |-> "assistant", data |-> data])
                 EXCEPT !.signalSeq = @ + 1])
    /\ last' = Signal([runId |-> runId, sessionKey |-> sessionKey,
                       stream |-> "assistant", data |-> data], fragment(data))
    /\ UNCHANGED captures

\* emitAgentEvent(event) on the tool stream while the listener is subscribed
ToolSignal ==
  \E runId \in RunIds, sessionKey \in Sessions \cup {Undefined}, data \in ToolData :
    /\ unsubscribe
    /\ signalSeq < MaxSignals
    /\ Room(World)
    /\ Commit([handleAgentEvent(World, [runId |-> runId, sessionKey |-> sessionKey,
                                        stream |-> "tool", data |-> data])
                 EXCEPT !.signalSeq = @ + 1])
    /\ last' = Signal([runId |-> runId, sessionKey |-> sessionKey,
                       stream |-> "tool", data |-> data],
                      [phase |-> data.phase, keyed |-> sessionKey # Undefined])
    /\ UNCHANGED captures

\* emitAgentEvent(event) on the lifecycle stream while the listener is subscribed
LifecycleSignal ==
  \E runId \in RunIds, sessionKey \in Sessions \cup {Undefined}, phase \in {"start", "end"} :
    /\ unsubscribe
    /\ signalSeq < MaxSignals
    /\ Room(World)
    /\ Commit([handleAgentEvent(World, [runId |-> runId, sessionKey |-> sessionKey,
                                        stream |-> "lifecycle", data |-> [phase |-> phase]])
                 EXCEPT !.signalSeq = @ + 1])
    /\ last' = Signal([runId |-> runId, sessionKey |-> sessionKey,
                       stream |-> "lifecycle", data |-> [phase |-> phase]],
                      [phase |-> phase, keyed |-> sessionKey # Undefined])
    /\ UNCHANGED captures

\* the debounce timer of a session fires
LlmDebounceFire ==
  \E sessionKey \in Sessions :
    /\ Has(llmDebounceTimers, sessionKey)
    /\ Room(World)
    /\ Commit(llmDebounceTimeout(World, sessionKey))
    /\ last' = Op("llmDebounceTimer", sessionKey, Null)
    /\ UNCHANGED captures

FlushPendingLLMEvents ==
  \E sessionKey \in Sessions :
    /\ Room(World)
    /\ Commit(flushPendingLLMEvents(World, sessionKey))
    /\ last' = Op("flushPendingLLMEvents", sessionKey,
                  IF Has(llmPendingData, sessionKey) THEN "pending" ELSE "idle")
    /\ UNCHANGED captures

\* time passes while a tool call is running or a cache entry is ageing:
\* Date.now() returns a later value
Tick ==
  /\ now < StartTime + MaxTicks
  /\ toolStartTimes # EmptyMap \/ learningCache # <<>>
  /\ Commit([World EXCEPT !.now = @ + 1])
  /\ last' = Op("tick", Null, Null)
  /\ UNCHANGED captures

NextListener ==
  \/ InitMarloClient
  \/ StartEventListener
  \/ StartTrajectory
  \/ EndMessageCaptureSuccess
  \/ AssistantSignal
  \/ LlmDebounceFire

\* The debouncer: assistant signals between the start and the end of trajectories.
SpecListener == Init /\ [][NextListener]_vars

NextTools ==
  \/ InitMarloClient
  \/ StartEventListener
  \/ StartTrajectory
  \/ ToolSignal
  \/ LifecycleSignal
  \/ Tick

\* The correlator: tool and lifecycle signals and the passing of time.
SpecTools == Init /\ [][NextTools]_vars

ShutdownMarlo ==
  /\ shutdown.awaiting = 0
  /\ Commit(shutdownMarlo(World))
  /\ last' = Op("shutdownMarlo", Null,
                IF shutdownMarlo(World).shutdown.awaiting = 0
                THEN "resolved" ELSE "suspended")
  /\ UNCHANGED captures

NextShutdown ==
  \/ InitMarloClient
  \/ StartTrajectory
  \/ LogToolCall
  \/ FlushTimerFire
  \/ ShutdownMarlo
  \/ ShutdownTrajectoryCapture
  \/ IngestResolve
  \/ IngestReject

\* The shutdown sequence, suspended while its final flush is being sent, with
\* the calls that can run meanwhile.
SpecShutdown == Init /\ [][NextShutdown]_vars

NextLearnings ==
  \/ InitMarloClient
  \/ ShutdownMarloClient
  \/ GetActiveLearnings
  \/ ClearLearningsCache
  \/ StartMessageCapture
  \/ StartMessageCaptureResume

\* The learnings cache and file with the capture hook that syncs the file.
SpecLearnings == Init /\ [][NextLearnings]_vars

NextSettle ==
  \/ InitMarloClient
  \/ StartEventListener
  \/ StartTrajectory
  \/ EndMessageCaptureSuccess
  \/ AssistantSignal
  \/ FlushPendingLLMEvents

\* The debouncer with the forced settlement of a session's pending text.
SpecSettle == Init /\ [][NextSettle]_vars

NextBuffer ==
  \/ InitMarloClient
  \/ StartEventListener
  \/ StartTrajectory
  \/ EndMessageCaptureSuccess
  \/ ToolSignal
  \/ FlushBuffer
  \/ FlushTimerFire

\* The buffer under its callers: the start and the end of trajectories, the
\* tool calls the listener logs, explicit flushes and the flush timer.
SpecBuffer == Init /\ [][NextBuffer]_vars

\* The buffer and the transport when a flush timer that stays set fires: Node
\* runs the callback of every timer that is not cleared.
SpecLive == Init /\ [][NextTransport]_vars /\ WF_vars(FlushTimerFire)

NextDebounce ==
  \/ InitMarloClient
  \/ StartEventListener
  \/ StopEventListener
  \/ StartTrajectory
  \/ AssistantSignal
  \/ LlmDebounceFire
  \/ FlushPendingLLMEvents

\* The debouncer under everything that writes its maps: the signals, the timer
\* callback, the forced settlement and the teardown.
SpecDebounce == Init /\ [][NextDebounce]_vars

NextTeardown ==
  \/ InitMarloClient
  \/ StartEventListener
  \/ StopEventListener
  \/ StartTrajectory
  \/ AssistantSignal
  \/ ToolSignal
  \/ LlmDebounceFire

\* The listener from its start to its teardown, with the state signals leave.
SpecTeardown == Init /\ [][NextTeardown]_vars

(***************************************************************************)
(* Observations used by the properties.                                    *)
(***************************************************************************)
RECURSIVE EventsOf(_)
\* the events of a sequence of batches, in order
EventsOf(batches) ==
  IF batches = <<>> THEN <<>>
  ELSE batches[1].events \o EventsOf(Tail(batches))

IsHanded(batch) == batch.fate # "discarded"

\* every event that has left the buffer, in the order it left
FlushedEvents == EventsOf(flushed)
\* the events client.ingestEvents was called with
HandedEvents == EventsOf(SelectSeq(flushed, IsHanded))
\* every event created so far, in creation order
CreatedEvents == FlushedEvents \o eventBuffer

OfRun(events, runId) == SelectSeq(events, LAMBDA e : e.run_id = runId)
OfType(events, type) == SelectSeq(events, LAMBDA e : e.event_type = type)
EndedRuns == {CreatedEvents[i].run_id : i \in {j \in DOMAIN CreatedEvents :
                                              CreatedEvents[j].event_type = "task_end"}}
Increasing(events) ==
  \A i, j \in DOMAIN events : i < j => events[i].event_id < events[j].event_id
LogOps == {"logLLMCall", "logToolCall", "logAgentDefinition"}

(***************************************************************************)
(* C1                                                                      *)
(***************************************************************************)
\* C1: whatever the interleaving of startMessageCapture calls, a call never
\* starts a trajectory for a session key that has an active trajectory at the
\* moment it calls startTrajectory (so no second task_start precedes the first
\* trajectory's task_end).
C1_NeverStartsOverActive ==
  (last.op = "startMessageCapture" /\ last.arg = "started") => ~last.active

(***************************************************************************)
(* C2                                                                      *)
(***************************************************************************)
\* One task_start first, one task_end last, in the sequence `events` of one run.
Bracketed(events) ==
  /\ Len(OfType(events, "task_start")) = 1
  /\ Len(OfType(events, "task_end")) = 1
  /\ events[1].event_type = "task_start"
  /\ events[Len(events)].event_type = "task_end"
  /\ Increasing(events)

\* C2 as stated: for every trajectory that was started and ended, the events
\* handed to the transport for it hold exactly one task_start, created before,
\* and exactly one task_end, created after, every other event of the trajectory.
C2_HandedBracketed ==
  \A r \in EndedRuns : Bracketed(OfRun(HandedEvents, r))

\* C2 as amended: for every trajectory that was started and ended, the events
\* that left the buffer for it (handed to the transport, or discarded by a
\* flush that found no client) hold exactly one task_start, created before, and
\* exactly one task_end, created after, every other event of the trajectory; the
\* events handed to the transport are among these, in the same order, with at
\* most one task_start and at most one task_end.
C2_FlushedBracketed ==
  \A r \in EndedRuns :
    LET all == OfRun(CreatedEvents, r)
        out == OfRun(FlushedEvents, r)
        handed == OfRun(HandedEvents, r) IN
    /\ out = all
    /\ Bracketed(out)
    /\ Increasing(handed)
    /\ \A i \in DOMAIN handed : \E j \in DOMAIN out : out[j] = handed[i]
    /\ Len(OfType(handed, "task_start")) <= 1
    /\ Len(OfType(handed, "task_end")) <= 1

\* a trajectory with an event between its task_start and its task_end, all three
\* handed to the transport
C2_Witness ==
  \E r \in EndedRuns :
    /\ Len(OfRun(HandedEvents, r)) >= 3
    /\ OfRun(HandedEvents, r) = OfRun(CreatedEvents, r)

(***************************************************************************)
(* C3                                                                      *)
(***************************************************************************)
\* C3: hasActiveTrajectory(sessionKey) is true right after startTrajectory and
\* false right after endTrajectory on that key, and neither changes
\* hasActiveTrajectory of another session.
C3_HasActiveAfterStartAndEnd ==
  /\ [](/\ last.op = "startTrajectory" => hasActiveTrajectory(World, last.sessionKey)
        /\ last.op = "endTrajectory" => ~hasActiveTrajectory(World, last.sessionKey))
  /\ [][last'.op \in {"startTrajectory", "endTrajectory"} =>
          \A t \in Sessions \ {last'.sessionKey} :
            Has(activeTrajectories', t) = Has(activeTrajectories, t)]_vars

\* endTrajectory has just ended the trajectory of one session while another
\* session's trajectory stays active
C3_Witness ==
  /\ last.op = "endTrajectory"
  /\ last.active
  /\ \E t \in Sessions \ {last.sessionKey} : hasActiveTrajectory(World, t)

(***************************************************************************)
(* C4                                                                      *)
(***************************************************************************)
EndOps == {"endTrajectory", "endMessageCaptureSuccess", "endMessageCaptureError"}

\* C4: when a trajectory ends while a text fragment is pending for its session,
\* the end cancels the debounce timer and emits the pending text as an llm_call
\* event of that trajectory, just before its task_end.
C4_EndEmitsPending ==
  [][\A s \in Sessions :
       (/\ last'.op \in EndOps /\ last'.sessionKey = s
        /\ Has(activeTrajectories, s) /\ ~Has(activeTrajectories', s)
        /\ Has(llmPendingData, s))
       => /\ ~Has(llmPendingData', s)
          /\ ~Has(llmDebounceTimers', s)
          /\ Len(CreatedEvents') = Len(CreatedEvents) + 2
          /\ LET event == CreatedEvents'[Len(CreatedEvents) + 1] IN
               /\ event.event_type = "llm_call"
               /\ event.run_id = activeTrajectories[s].runId
               /\ event.payload.response = <<[text |-> llmPendingData[s].text]>>
          /\ CreatedEvents'[Len(CreatedEvents) + 2].event_type = "task_end"]_vars

(***************************************************************************)
(* C5                                                                      *)
(***************************************************************************)
\* the text recorded as the longest of a session, "" when none is recorded
lastTextOf(s) ==
  IF Has(lastLLMTextBySession, s) THEN lastLLMTextBySession[s] ELSE <<>>

\* this step delivers a text fragment to the debouncer of session s, which has
\* an active trajectory
FragmentArrives(s) ==
  /\ last'.op = "assistant" /\ last'.sessionKey = s /\ last'.active
  /\ clientInstance # Null
  /\ last'.arg # <<>>

\* the fragment is the first of a sequence (nothing is pending) or extends the
\* pending fragment
Extends(s, text) ==
  \/ ~Has(llmPendingData, s)
  \/ startsWith(text, llmPendingData[s].text) /\ text # llmPendingData[s].text

\* C5: each fragment of a sequence of fragments that extend one another becomes
\* the pending text of the session, with a live timer and without an event; when
\* the timer fires on an active trajectory, exactly one llm_call event is emitted,
\* carrying the pending (last, longest) fragment, and the entry is gone.
C5_Coalesces ==
  [][\A s \in Sessions :
       /\ (FragmentArrives(s) /\ Extends(s, last'.arg))
            => /\ Has(llmPendingData', s)
               /\ llmPendingData'[s].text = last'.arg
               /\ Has(llmDebounceTimers', s)
               /\ Len(CreatedEvents') = Len(CreatedEvents)
       /\ (/\ last'.op = "llmDebounceTimer" /\ last'.sessionKey = s /\ last'.active
           /\ Has(llmPendingData, s))
            => /\ Len(CreatedEvents') = Len(CreatedEvents) + 1
               /\ LET event == CreatedEvents'[Len(CreatedEvents) + 1] IN
                    /\ event.event_type = "llm_call"
                    /\ event.run_id = activeTrajectories[s].runId
                    /\ event.payload.response = <<[text |-> llmPendingData[s].text]>>
               /\ ~Has(llmPendingData', s)
               /\ ~Has(llmDebounceTimers', s)]_vars

(***************************************************************************)
(* C6                                                                      *)
(***************************************************************************)
\* C6: when a text fragment reaches the debouncer of a session whose recorded
\* longest text starts with that fragment, nothing changes: the timer handle, the
\* pending payload and the recorded text stay, no timer is set, no event is
\* created or flushed.
C6_BackwardDeltaDiscarded ==
  [][\A s \in Sessions :
       (FragmentArrives(s) /\ startsWith(lastTextOf(s), last'.arg))
       => UNCHANGED <<llmDebounceTimers, llmPendingData, lastLLMTextBySession, timerSeq,
                      eventBuffer, flushed, flushTimer, uuidSeq, activeTrajectories>>]_vars

\* "ab" is pending with its timer and "a" has just arrived
C6_Witness ==
  \E s \in Sessions :
    /\ last.op = "assistant" /\ last.sessionKey = s /\ last.active
    /\ clientInstance # Null
    /\ last.arg # <<>>
    /\ Has(llmPendingData, s) /\ Has(llmDebounceTimers, s)
    /\ startsWith(llmPendingData[s].text, last.arg)
    /\ llmPendingData[s].text # last.arg
    /\ lastTextOf(s) = llmPendingData[s].text

(***************************************************************************)
(* C7                                                                      *)
(***************************************************************************)
Inflight == {i \in DOMAIN flushed : flushed[i].fate = "inflight"}

\* C7: flushBuffer swaps the buffer out atomically. No event is ever in two
\* batches, or in a batch and in the buffer; a batch, once swapped out, never
\* changes; no step loses an event that was in the buffer; a flush takes the
\* whole buffer and leaves a fresh one; and an event enqueued while a send is in
\* flight goes to the fresh buffer (or to the new batch of the flush it
\* triggers), so that the next flush hands it over.
C7_AtomicSwap ==
  /\ [](\A i, j \in DOMAIN CreatedEvents :
          i # j => CreatedEvents[i].event_id # CreatedEvents[j].event_id)
  /\ [][LET enqueued == Len(CreatedEvents') = Len(CreatedEvents) + 1
            event == CreatedEvents'[Len(CreatedEvents')]
            didFlush == Len(flushed') > Len(flushed)
            pending == IF enqueued THEN Append(eventBuffer, event) ELSE eventBuffer IN
        /\ Len(flushed') \in {Len(flushed), Len(flushed) + 1}
        /\ \A i \in DOMAIN flushed : flushed'[i].events = flushed[i].events
        /\ SubSeq(CreatedEvents', 1, Len(CreatedEvents)) = CreatedEvents
        /\ Len(CreatedEvents') \in {Len(CreatedEvents), Len(CreatedEvents) + 1}
        /\ didFlush =>
             /\ eventBuffer' = <<>>
             /\ flushed'[Len(flushed')].events = pending
             /\ flushed'[Len(flushed')].fate =
                  IF clientInstance' = Null THEN "discarded" ELSE "inflight"
        /\ ~didFlush => eventBuffer' = pending
        /\ (enqueued /\ Inflight # {}) =>
             \/ event = eventBuffer'[Len(eventBuffer')]
             \/ didFlush /\ event = flushed'[Len(flushed')].events[Len(pending)]
       ]_vars

\* two sends are in flight and an event enqueued since waits in the fresh buffer
C7_Witness ==
  /\ Cardinality(Inflight) >= 2
  /\ Len(eventBuffer) > 0
  /\ last.op = "logToolCall"

(***************************************************************************)
(* C8                                                                      *)
(***************************************************************************)
\* C8: an enqueue that brings the buffer to maxSize flushes at once; an enqueue
\* below maxSize schedules the flush timer when none is scheduled and keeps the
\* scheduled one otherwise; and below maxSize nothing is flushed unless the
\* timer fires or a flush is requested (flushBuffer, endTrajectory).
C8_FlushTriggers ==
  /\ [](Len(eventBuffer) < maxSize)
  /\ [][LET enqueued == Len(CreatedEvents') = Len(CreatedEvents) + 1
            event == CreatedEvents'[Len(CreatedEvents')]
            didFlush == Len(flushed') > Len(flushed) IN
        /\ (enqueued /\ Len(eventBuffer) + 1 >= maxSize) =>
             /\ didFlush
             /\ flushed'[Len(flushed')].events = Append(eventBuffer, event)
             /\ eventBuffer' = <<>>
             /\ flushTimer' = 0
        /\ (enqueued /\ Len(eventBuffer) + 1 < maxSize /\ last'.op # "endTrajectory") =>
             /\ ~didFlush
             /\ eventBuffer' = Append(eventBuffer, event)
             /\ flushTimer' # 0
             /\ flushTimer # 0 => flushTimer' = flushTimer
             /\ flushTimer = 0 => flushTimer' > timerSeq
        /\ (didFlush /\ Len(eventBuffer') + Len(flushed'[Len(flushed')].events) < maxSize) =>
             last'.op \in {"flushTimer", "flushBuffer", "endTrajectory"}
       ]_vars

\* a log call has just filled the buffer, which was flushed as one batch of
\* maxSize events
C8_Witness ==
  /\ last.op \in LogOps
  /\ eventBuffer = <<>>
  /\ flushTimer = 0
  /\ flushed # <<>>
  /\ Len(flushed[Len(flushed)].events) = maxSize

(***************************************************************************)
(* C9                                                                      *)
(***************************************************************************)
\* what endTrajectory leaves behind on a session with an active trajectory,
\* given the fate its batch is to have
EndedAndFlushed(fates) ==
  (last.op = "endTrajectory" /\ last.active) =>
    /\ eventBuffer = <<>>
    /\ flushTimer = 0
    /\ ~hasActiveTrajectory(World, last.sessionKey)
    /\ flushed # <<>>
    /\ LET batch == flushed[Len(flushed)]
           event == batch.events[Len(batch.events)] IN
       /\ batch.fate \in fates
       /\ event.event_type = "task_end"
       /\ event.payload.status = last.arg
       /\ event.event_id = uuidSeq
       /\ Len(OfType(OfRun(CreatedEvents, event.run_id), "task_end")) = 1

\* C9 as stated: endTrajectory on a session with an active trajectory appends one
\* task_end with the given status, removes the trajectory, and leaves the buffer
\* empty, no flush timer, and a batch handed to the transport that ends with
\* that task_end.
C9_EndHandsBatch == EndedAndFlushed({"inflight"})

\* C9 as amended: the same, except that the batch ending with the task_end is
\* handed to the transport when a client is initialised and discarded when
\* none is.
C9_EndFlushesBatch ==
  EndedAndFlushed(IF clientInstance = Null THEN {"discarded"} ELSE {"inflight"})

\* endTrajectory has just handed a batch of several events to the transport
C9_Witness ==
  /\ last.op = "endTrajectory"
  /\ last.active
  /\ clientInstance # Null
  /\ Len(flushed[Len(flushed)].events) >= 2

(***************************************************************************)
(* C10                                                                     *)
(***************************************************************************)
\* C10: logLLMCall, logToolCall and logAgentDefinition for a session without an
\* active trajectory change neither the buffer, nor the flush timer, nor the
\* trajectory store, and queue nothing anywhere.
C10_LogWithoutTrajectoryDropped ==
  [][(last'.op \in LogOps /\ ~hasActiveTrajectory(World, last'.sessionKey)) =>
       UNCHANGED <<eventBuffer, flushTimer, activeTrajectories, runIdCounter,
                   flushed, uuidSeq, timerSeq, llmPendingData, llmDebounceTimers>>]_vars

\* a log call for a session without a trajectory has just run while events of
\* another session wait in the buffer
C10_Witness ==
  /\ last.op \in LogOps
  /\ ~last.active
  /\ Len(eventBuffer) > 0
  /\ flushTimer # 0

(***************************************************************************)
(* C11                                                                     *)
(***************************************************************************)
\* C11: endTrajectory for a session without an active trajectory appends no
\* event, leaves the buffer and the flush timer as they are, flushes nothing
\* and leaves the trajectories of the other sessions in the store.
C11_EndWithoutTrajectoryNoOp ==
  [][(last'.op = "endTrajectory" /\ ~hasActiveTrajectory(World, last'.sessionKey)) =>
       UNCHANGED <<eventBuffer, flushTimer, activeTrajectories, runIdCounter,
                   flushed, uuidSeq, timerSeq>>]_vars

\* endTrajectory has just run for a session without a trajectory while an event
\* of another session waits in the buffer with the flush timer scheduled
C11_Witness ==
  /\ last.op = "endTrajectory"
  /\ ~last.active
  /\ Len(eventBuffer) > 0
  /\ flushTimer # 0
  /\ \E t \in Sessions \ {last.sessionKey} : hasActiveTrajectory(World, t)

(***************************************************************************)
(* C12                                                                     *)
(***************************************************************************)
\* the identifiers of the events of a sequence
Ids(events) == {events[k].event_id : k \in DOMAIN events}

\* C12: when the transport rejects a batch, nothing but the fate of that batch
\* changes (the failure reaches no caller, the buffer with the events enqueued
\* meanwhile, the timer and the store stay); the events of a rejected batch are
\* neither in the buffer nor in another batch, and the batch stays rejected.
C12_RejectedBatchLost ==
  /\ [](\A i \in DOMAIN flushed :
          flushed[i].fate = "rejected" =>
            /\ Ids(flushed[i].events) \cap Ids(eventBuffer) = {}
            /\ \A j \in DOMAIN flushed \ {i} :
                 Ids(flushed[i].events) \cap Ids(flushed[j].events) = {})
  /\ [][last'.op = "ingestReject" =>
          /\ UNCHANGED <<eventBuffer, flushTimer, activeTrajectories, clientInstance,
                         uuidSeq, timerSeq>>
          /\ Len(flushed') = Len(flushed)
          /\ \E i \in DOMAIN flushed :
               /\ flushed[i].fate = "inflight" /\ flushed'[i].fate = "rejected"
               /\ \A j \in DOMAIN flushed \ {i} : flushed'[j].fate = flushed[j].fate
          /\ \A i \in DOMAIN flushed : Len(flushed'[i].events) = Len(flushed[i].events)
       ]_vars
  /\ [][\A i \in DOMAIN flushed :
          flushed[i].fate = "rejected" => flushed'[i].fate = "rejected"]_vars

\* a batch has just been rejected while an event enqueued since its flush waits
\* in the buffer
C12_Witness ==
  /\ last.op = "ingestReject"
  /\ Len(eventBuffer) > 0
  /\ \E i \in DOMAIN flushed : flushed[i].fate = "rejected"

(***************************************************************************)
(* C13                                                                     *)
(***************************************************************************)
ToolEvents ==
  {[runId |-> runId, sessionKey |-> sessionKey, stream |-> "tool", data |-> data] :
     runId \in RunIds, sessionKey \in Sessions \cup {Undefined}, data \in ToolData}

\* every event created in the world w, in creation order
Created(w) == EventsOf(w.flushed) \o w.eventBuffer
Newest(w) == Created(w)[Len(Created(w))]

\* the handler forwards the event: a client is set, the event resolves to a
\* session and that session has an active trajectory
Forwarded(w, event) ==
  /\ w.clientInstance # Null
  /\ resolvedSessionKey(w, event) # Undefined
  /\ hasActiveTrajectory(w, resolvedSessionKey(w, event))

\* C13: a forwarded start signal with a tool-call id records the current time
\* under that id, the recorded time stays until a tool signal replaces or
\* consumes it, and a forwarded terminal signal creates one tool_call event
\* whose duration is the time since the recorded start, or undefined when no
\* start is recorded for its id or it has no id.
C13_ToolDuration ==
  /\ [](\A event \in ToolEvents :
          LET data == event.data
              id == data.toolCallId
              w == handleAgentEvent(World, event) IN
          (Forwarded(World, event) /\ data.name # Undefined) =>
            /\ (data.phase = "start" /\ id # Undefined) =>
                 Has(w.toolStartTimes, id) /\ w.toolStartTimes[id] = now
            /\ data.phase \in TerminalPhases =>
                 /\ Len(Created(w)) = Len(CreatedEvents) + 1
                 /\ Newest(w).event_type = "tool_call"
                 /\ Newest(w).payload.duration_ms =
                      IF id # Undefined /\ Has(toolStartTimes, id)
                      THEN <<now - toolStartTimes[id]>> ELSE <<>>)
  /\ [][\A id \in DOMAIN toolStartTimes :
          \/ Has(toolStartTimes', id) /\ toolStartTimes'[id] = toolStartTimes[id]
          \/ last'.op \in {"tool", "stopEventListener"}]_vars

\* a terminal signal has just produced a tool_call event with a duration of one
\* tick or more
C13_Witness ==
  /\ last.op = "tool" /\ last.arg.phase \in TerminalPhases /\ last.active
  /\ Len(CreatedEvents) > 0
  /\ Newest(World).event_type = "tool_call"
  /\ Newest(World).payload.duration_ms # <<>>
  /\ Newest(World).payload.duration_ms[1] >= 1

(***************************************************************************)
(* C14                                                                     *)
(***************************************************************************)
\* data.args ?? {}
ArgsOf(data) == IF data.args # Undefined THEN data.args ELSE "{}"

\* C14: a forwarded start signal creates no event and only records the time and
\* the input under its tool-call id; a forwarded terminal signal creates exactly
\* one tool_call event of the session's trajectory, carrying the tool name and
\* the input recorded under its id, or its own input when none is recorded, and
\* consumes the recorded entry.
C14_OneToolCallEvent ==
  \A event \in ToolEvents :
    LET data == event.data
        id == data.toolCallId
        s == resolvedSessionKey(World, event)
        w == handleAgentEvent(World, event) IN
    (Forwarded(World, event) /\ data.name # Undefined) =>
      /\ data.phase = "start" =>
           /\ Len(Created(w)) = Len(CreatedEvents)
           /\ w.eventBuffer = eventBuffer /\ w.flushTimer = flushTimer
           /\ w.activeTrajectories = activeTrajectories
           /\ IF id # Undefined
              THEN /\ w.toolStartTimes = Put(toolStartTimes, id, now)
                   /\ w.toolInputsById = Put(toolInputsById, id, ArgsOf(data))
              ELSE /\ w.toolStartTimes = toolStartTimes
                   /\ w.toolInputsById = toolInputsById
      /\ data.phase \in TerminalPhases =>
           /\ Len(Created(w)) = Len(CreatedEvents) + 1
           /\ SubSeq(Created(w), 1, Len(CreatedEvents)) = CreatedEvents
           /\ Newest(w).event_type = "tool_call"
           /\ Newest(w).run_id = activeTrajectories[s].runId
           /\ Newest(w).payload.tool_name = data.name
           /\ Newest(w).payload.tool_input =
                IF id # Undefined /\ Has(toolInputsById, id)
                THEN toolInputsById[id] ELSE ArgsOf(data)
           /\ id # Undefined =>
                ~Has(w.toolInputsById, id) /\ ~Has(w.toolStartTimes, id)

\* a terminal signal has just produced a tool_call event carrying the input "x"
\* recorded at the start, which no terminal signal carries
C14_Witness ==
  /\ last.op = "tool" /\ last.arg.phase \in TerminalPhases /\ last.active
  /\ Len(CreatedEvents) > 0
  /\ Newest(World).event_type = "tool_call"
  /\ Newest(World).payload.tool_input = "x"
  /\ \A data \in ToolData : data.phase \in TerminalPhases => data.args # "x"

(***************************************************************************)
(* C15                                                                     *)
(***************************************************************************)
AgentEvents ==
  ToolEvents
  \cup {[runId |-> runId, sessionKey |-> sessionKey, stream |-> "lifecycle",
         data |-> [phase |-> phase]] :
          runId \in RunIds, sessionKey \in Sessions \cup {Undefined},
          phase \in {"start", "end"}}
  \cup {[runId |-> runId, sessionKey |-> sessionKey, stream |-> "assistant", data |-> data] :
          runId \in RunIds, sessionKey \in Sessions \cup {Undefined},
          data \in AssistantData}

\* the handler, given the event in the world w, touched nothing that belongs to
\* a session other than s
OnlyTouches(w, s) ==
  /\ Len(Created(w)) > Len(CreatedEvents) =>
       /\ Len(Created(w)) = Len(CreatedEvents) + 1
       /\ hasActiveTrajectory(World, s)
       /\ Newest(w).run_id = activeTrajectories[s].runId
  /\ \A t \in Sessions \ {s} :
       /\ Has(w.llmPendingData, t) = Has(llmPendingData, t)
       /\ Has(w.llmDebounceTimers, t) = Has(llmDebounceTimers, t)
       /\ Has(w.lastLLMTextBySession, t) = Has(lastLLMTextBySession, t)

\* the forwarded event is the lifecycle end that removes the entry of its run
PurgesRun(event) ==
  Forwarded(World, event) /\ event.stream = "lifecycle" /\ event.data.phase = "end"

\* C15: a signal with a session key records the key for its run id (until a
\* forwarded lifecycle end of that run removes the entry) and only touches that
\* session; a signal without a session key only touches the session recorded for
\* its run id and leaves the record as it is; a signal without a session key
\* whose run id has no record changes nothing.
C15_SignalAttribution ==
  \A event \in AgentEvents :
    LET w == handleAgentEvent(World, event) IN
    clientInstance # Null =>
      /\ event.sessionKey # Undefined =>
           /\ OnlyTouches(w, event.sessionKey)
           /\ IF PurgesRun(event) THEN ~Has(w.runIdToSession, event.runId)
              ELSE /\ Has(w.runIdToSession, event.runId)
                   /\ w.runIdToSession[event.runId] = event.sessionKey
      /\ (event.sessionKey = Undefined /\ Has(runIdToSession, event.runId)) =>
           /\ OnlyTouches(w, runIdToSession[event.runId])
           /\ IF PurgesRun(event) THEN ~Has(w.runIdToSession, event.runId)
              ELSE w.runIdToSession = runIdToSession
      /\ (event.sessionKey = Undefined /\ ~Has(runIdToSession, event.runId)) =>
           w = World

\* a terminal tool signal without a session key has just produced a tool_call
\* event of the trajectory of the session recorded for its run
C15_Witness ==
  /\ last.op = "tool" /\ last.arg.phase \in TerminalPhases /\ ~last.arg.keyed
  /\ last.active
  /\ Len(CreatedEvents) > 0
  /\ Newest(World).event_type = "tool_call"
  /\ \E runId \in RunIds :
       /\ Has(runIdToSession, runId)
       /\ runIdToSession[runId] = last.sessionKey

(***************************************************************************)
(* C16                                                                     *)
(***************************************************************************)
\* C16: a tool, assistant or lifecycle signal whose resolved session has no
\* active trajectory creates no event and no trajectory, leaves the buffer, the
\* flush timer and the store as they are, records no tool span and no pending
\* debounce entry, and sets no timer.
C16_NoTrajectoryNoEffect ==
  \A event \in AgentEvents :
    LET w == handleAgentEvent(World, event)
        s == resolvedSessionKey(World, event) IN
    (s # Undefined /\ ~hasActiveTrajectory(World, s)) =>
      /\ w.eventBuffer = eventBuffer /\ w.flushed = flushed /\ w.flushTimer = flushTimer
      /\ w.activeTrajectories = activeTrajectories
      /\ w.toolStartTimes = toolStartTimes /\ w.toolInputsById = toolInputsById
      /\ w.llmPendingData = llmPendingData /\ w.llmDebounceTimers = llmDebounceTimers
      /\ w.lastLLMTextBySession = lastLLMTextBySession
      /\ w.timerSeq = timerSeq /\ w.uuidSeq = uuidSeq

\* a tool start signal has just arrived, with a client set, for a session
\* without a trajectory while another session has one and its event is buffered
C16_Witness ==
  /\ last.op = "tool" /\ last.arg.phase = "start"
  /\ last.sessionKey # Undefined /\ ~last.active
  /\ clientInstance # Null
  /\ Len(eventBuffer) > 0
  /\ \E t \in Sessions \ {last.sessionKey} : hasActiveTrajectory(World, t)

(***************************************************************************)
(* C17                                                                     *)
(***************************************************************************)
\* C17: once a lifecycle signal with phase end has been handled for a run, no
\* run-to-session entry remains for that run.
C17_EndPurgesRun ==
  \A event \in AgentEvents :
    (unsubscribe /\ event.stream = "lifecycle" /\ event.data.phase = "end") =>
      ~Has(handleAgentEvent(World, event).runIdToSession, event.runId)

(***************************************************************************)
(* C18                                                                     *)
(***************************************************************************)
\* C18: stopEventListener leaves the listener unsubscribed with the
\* run-to-session map, the tool-span maps and all debounce state empty, so that
\* no debounce timer is left to fire (one fires only while subscribed); a second
\* call changes nothing; and a call when the listener is not subscribed changes
\* nothing.
C18_TeardownClearsAll ==
  /\ [](LET w == stopEventListener(World) IN
          /\ ~w.unsubscribe
          /\ w.runIdToSession = EmptyMap
          /\ w.toolStartTimes = EmptyMap /\ w.toolInputsById = EmptyMap
          /\ w.lastLLMTextBySession = EmptyMap
          /\ w.llmDebounceTimers = EmptyMap /\ w.llmPendingData = EmptyMap
          /\ stopEventListener(w) = w
          /\ ~unsubscribe => w = World
          /\ w.eventBuffer = eventBuffer /\ w.flushTimer = flushTimer
          /\ w.activeTrajectories = activeTrajectories /\ w.flushed = flushed)
  /\ [][last'.op = "llmDebounceTimer" => unsubscribe]_vars

\* stopEventListener has just torn down a subscribed listener that had a live
\* debounce timer, an open tool span and a recorded run
C18_Witness ==
  /\ last.op = "stopEventListener"
  /\ last.arg.subscribed
  /\ last.arg.timers > 0 /\ last.arg.spans > 0 /\ last.arg.runs > 0
  /\ llmDebounceTimers = EmptyMap

(***************************************************************************)
(* C19, C20                                                                *)
(***************************************************************************)
\* the step recorded in l let the shutdown function `name` resolve: the call
\* itself when its flush sent nothing, the settling of the awaited send otherwise
ShutdownResolves(l, name) ==
  \/ l.op = name /\ l.arg = "resolved"
  \/ l.op \in {"ingestResolve", "ingestReject"} /\ l.arg = name

\* C19: when shutdownMarlo (stopEventListener, then shutdownTrajectoryCapture)
\* has completed, no flush timer and no debounce timer is scheduled, whatever
\* was enqueued while its final flush was suspended.
C19_NoTimerAfterShutdown ==
  [][ShutdownResolves(last', "shutdownMarlo") =>
       flushTimer' = 0 /\ llmDebounceTimers' = EmptyMap]_vars

\* the step is a call of shutdownTrajectoryCapture, directly or by shutdownMarlo
ShutdownCalled(l) ==
  l.op \in {"shutdownTrajectoryCapture", "shutdownMarlo"}

\* the call swapped the whole buffer out as one batch with the given fate, or
\* left `flushed` alone when nothing was buffered
FinalFlush(fate) ==
  /\ eventBuffer' = <<>>
  /\ flushTimer' = 0
  /\ IF eventBuffer = <<>> THEN flushed' = flushed
     ELSE /\ Len(flushed') = Len(flushed) + 1
          /\ SubSeq(flushed', 1, Len(flushed)) = flushed
          /\ flushed'[Len(flushed')].events = eventBuffer
          /\ flushed'[Len(flushed')].fate = fate

\* trajectory state is discarded only once the final flush has completed, and a
\* resolved shutdown leaves no session with an active trajectory
DiscardAfterFlush ==
  /\ (ShutdownCalled(last') /\ last'.arg = "suspended") =>
        /\ activeTrajectories' = activeTrajectories
        /\ flushed'[shutdown'.awaiting].fate = "inflight"
  /\ (shutdown.awaiting # 0 /\ shutdown'.awaiting # 0) =>
        /\ shutdown' = shutdown
        /\ \A s \in DOMAIN activeTrajectories : s \in DOMAIN activeTrajectories'
  /\ (shutdown.awaiting # 0 /\ shutdown'.awaiting = 0) =>
        /\ flushed'[shutdown.awaiting].fate \in {"ingested", "rejected"}
        /\ activeTrajectories' = EmptyMap
  /\ (ShutdownResolves(last', "shutdownTrajectoryCapture")
        \/ ShutdownResolves(last', "shutdownMarlo")) =>
        activeTrajectories' = EmptyMap

\* C20 as stated: shutdownTrajectoryCapture flushes once, handing every event
\* buffered at the call to the transport; it discards the trajectory state only
\* after that flush has completed; once it resolves no session has an active
\* trajectory.
C20_FinalFlushToTransport ==
  [][/\ ShutdownCalled(last') => FinalFlush("inflight")
     /\ DiscardAfterFlush]_vars

\* C20 amended: shutdownTrajectoryCapture flushes once; the events buffered at
\* the call are handed to the transport when a client is initialised and
\* discarded when none is; the trajectory state is discarded only after that
\* flush has completed; once it resolves no session has an active trajectory.
C20_FinalFlushThenDiscard ==
  [][/\ ShutdownCalled(last') =>
          FinalFlush(IF clientInstance # Null THEN "inflight" ELSE "discarded")
     /\ DiscardAfterFlush]_vars

\* a shutdownTrajectoryCapture that was suspended on the send of its final batch
\* has resolved with that send
C20_Witness ==
  /\ last.op = "ingestResolve"
  /\ last.arg = "shutdownTrajectoryCapture"
  /\ \E i \in DOMAIN flushed : flushed[i].fate = "ingested"
  /\ activeTrajectories = EmptyMap
  /\ shutdown.awaiting = 0

(***************************************************************************)
(* C21                                                                     *)
(***************************************************************************)
\* the runs that have a task_start, no task_end and no trajectory in the store
AbandonedRuns ==
  {CreatedEvents[i].run_id : i \in DOMAIN CreatedEvents} \
    (EndedRuns \cup {activeTrajectories[s].runId : s \in DOMAIN activeTrajectories})

\* C21: startTrajectory on a session with an active trajectory puts a new
\* trajectory (new run id, new task id) in its place and creates exactly one
\* event, the task_start of the new one; a task_end is created only by
\* endTrajectory, for the trajectory the store holds for that session at the
\* call; no trajectory in the store has a task_end, and no run id is used again,
\* so the replaced trajectory never gets one.
C21_DoubleStartReplaces ==
  /\ [](/\ \A s \in DOMAIN activeTrajectories :
             /\ activeTrajectories[s].runId \notin EndedRuns
             /\ activeTrajectories[s].runId < runIdCounter
        /\ \A i \in DOMAIN CreatedEvents : CreatedEvents[i].run_id < runIdCounter)
  /\ [][/\ Len(CreatedEvents') >= Len(CreatedEvents)
        /\ SubSeq(CreatedEvents', 1, Len(CreatedEvents)) = CreatedEvents
        /\ (last'.op = "startTrajectory" /\ last'.active) =>
             LET s == last'.sessionKey
                 old == activeTrajectories[s]
                 new == activeTrajectories'[s]
                 event == CreatedEvents'[Len(CreatedEvents')] IN
             /\ Has(activeTrajectories', s)
             /\ new.runId # old.runId /\ new.taskId # old.taskId
             /\ Len(CreatedEvents') = Len(CreatedEvents) + 1
             /\ event.event_type = "task_start"
             /\ event.run_id = new.runId /\ event.task_id = new.taskId
             /\ old.runId \notin EndedRuns'
        /\ \A i \in DOMAIN CreatedEvents' \ DOMAIN CreatedEvents :
             CreatedEvents'[i].event_type = "task_end" =>
               /\ last'.op = "endTrajectory"
               /\ Has(activeTrajectories, last'.sessionKey)
               /\ CreatedEvents'[i].run_id = activeTrajectories[last'.sessionKey].runId
               /\ ~Has(activeTrajectories', last'.sessionKey)]_vars

\* endTrajectory has just ended a session's trajectory while a trajectory that
\* was replaced earlier is left without a task_end
C21_Witness ==
  /\ last.op = "endTrajectory"
  /\ last.active
  /\ AbandonedRuns # {}
  /\ Len(OfType(CreatedEvents, "task_end")) = 1

(***************************************************************************)
(* C22                                                                     *)
(***************************************************************************)
AssistantEvents == {event \in AgentEvents : event.stream = "assistant"}

\* the event carries reasoning and neither response text nor usage counts
ReasoningOnly(data) ==
  ~hasUsage(data) /\ data.thinking # <<>> /\ data.text = <<>>

\* C22: a reasoning signal processed for a session while a text fragment is
\* pending there with its timer creates its llm_call event at once and leaves
\* the pending text and the timer as they are; the event the timer then creates
\* for the pending text comes after the reasoning event.
C22_ReasoningBeforeDebouncedText ==
  \A event \in AssistantEvents :
    LET s == resolvedSessionKey(World, event)
        w == handleAgentEvent(World, event)
        w2 == llmDebounceTimeout(w, s) IN
    (/\ unsubscribe /\ Forwarded(World, event) /\ ReasoningOnly(event.data)
     /\ Has(llmPendingData, s) /\ Has(llmDebounceTimers, s))
    => /\ Created(w) = Append(CreatedEvents, Newest(w))
       /\ Newest(w).event_type = "llm_call"
       /\ Newest(w).run_id = activeTrajectories[s].runId
       /\ Newest(w).payload.reasoning = <<[thinking |-> event.data.thinking]>>
       /\ Newest(w).payload.response = <<>>
       /\ w.llmPendingData = llmPendingData
       /\ w.llmDebounceTimers = llmDebounceTimers
       /\ Created(w2) = Append(Created(w), Newest(w2))
       /\ Newest(w2).event_type = "llm_call"
       /\ Newest(w2).run_id = activeTrajectories[s].runId
       /\ Newest(w2).payload.response = <<[text |-> llmPendingData[s].text]>>
       /\ Newest(w2).event_id > Newest(w).event_id

\* a reasoning signal has just been processed for a session whose text
\* fragment is still pending with its timer
C22_Witness ==
  /\ last.op = "assistant" /\ last.active /\ last.arg = <<>>
  /\ Has(llmPendingData, last.sessionKey)
  /\ Has(llmDebounceTimers, last.sessionKey)
  /\ CreatedEvents # <<>>
  /\ CreatedEvents[Len(CreatedEvents)].event_type = "llm_call"
  /\ CreatedEvents[Len(CreatedEvents)].payload.reasoning # <<>>

(***************************************************************************)
(* C23                                                                     *)
(***************************************************************************)
\* C23: events stand in the buffer and in the batches in the order they were
\* created (the order in which the calls that create them were processed): the
\* batches in flush order followed by the buffer list every event in creation
\* order, so each batch is in that order and an earlier batch holds strictly
\* earlier events than a later one; a step only appends to that list, an event
\* created by a call belongs to the trajectory of the session the call names,
\* and a flush takes the whole buffer, in buffer order, as one batch.
C23_Fifo ==
  /\ [](/\ Increasing(CreatedEvents)
        /\ \A i \in DOMAIN flushed : flushed[i].events # <<>>)
  /\ [][/\ Len(CreatedEvents') >= Len(CreatedEvents)
        /\ SubSeq(CreatedEvents', 1, Len(CreatedEvents)) = CreatedEvents
        /\ \A i \in DOMAIN CreatedEvents' \ DOMAIN CreatedEvents :
             /\ \A j \in DOMAIN CreatedEvents :
                  CreatedEvents[j].event_id < CreatedEvents'[i].event_id
             /\ Has(activeTrajectories', last'.sessionKey)
             /\ CreatedEvents'[i].run_id = activeTrajectories'[last'.sessionKey].runId
        /\ Len(flushed') >= Len(flushed)
        /\ \A i \in DOMAIN flushed : flushed'[i].events = flushed[i].events
        /\ Len(flushed') > Len(flushed) =>
             /\ Len(flushed') = Len(flushed) + 1
             /\ eventBuffer' = <<>>
             /\ SubSeq(flushed'[Len(flushed')].events, 1, Len(eventBuffer)) = eventBuffer]_vars

\* two batches were handed to the transport, one of them with several events
C23_Witness ==
  /\ Len(SelectSeq(flushed, IsHanded)) >= 2
  /\ \E i \in DOMAIN flushed : IsHanded(flushed[i]) /\ Len(flushed[i].events) >= 2
  /\ \E i, j \in DOMAIN CreatedEvents : CreatedEvents[i].run_id # CreatedEvents[j].run_id

(***************************************************************************)
(* C24                                                                     *)
(***************************************************************************)
LearningsParams ==
  {[agentId |-> Undefined, projectId |-> projectId, forceRefresh |-> forceRefresh] :
     projectId \in ProjectIds, forceRefresh \in BOOLEAN}

\* the request for the learning state fails or finds nothing
FetchFails(response) == getLearnings(response) = <<>>

\* a startMessageCapture suspended at its sync starts the trajectory of its
\* session whatever the server answers and whether or not the file is written
SuspendedCaptureStarts ==
  \A c \in Calls, response \in Responses, writeFails \in BOOLEAN :
    captures[c] # Null =>
      LET w == startMessageCaptureResumed(World, captures[c], response, writeFails) IN
      /\ hasActiveTrajectory(w, captures[c])
      /\ Created(w) = Append(CreatedEvents, Newest(w))
      /\ Newest(w).event_type = "task_start"
      /\ Newest(w).run_id = w.activeTrajectories[captures[c]].runId

\* syncLearningsFile resolves to false and changes nothing when no client is
\* set or the fetch fails or finds nothing
SyncResolvesFalse ==
  \A force, writeFails \in BOOLEAN, response \in Responses :
    (clientInstance = Null \/ FetchFails(response)) =>
      /\ syncLearningsFile(World, force, response, writeFails).result = FALSE
      /\ syncLearningsFile(World, force, response, writeFails).w = World

\* C24 as stated: when the learnings fetch fails or finds nothing, or no client
\* is initialised, getActiveLearnings resolves to the empty list,
\* syncLearningsFile resolves to false, and startMessageCapture (enabled, channel
\* not excluded, no active trajectory) still goes on to start the trajectory.
C24_FailureNeverPropagates ==
  /\ \A params \in LearningsParams, response \in Responses :
       (clientInstance = Null \/ FetchFails(response)) =>
         getActiveLearnings(World, params, response).result = <<>>
  /\ SyncResolvesFalse
  /\ SuspendedCaptureStarts
  /\ clientInstance = Null =>
       \A s \in Sessions :
         ~hasActiveTrajectory(World, s) => ~skipsCapture(World, s, TRUE, FALSE)

\* C24 amended: a call of getActiveLearnings that the cache does not answer
\* resolves to the empty list when no client is initialised or the fetch fails
\* or finds nothing, while a call the cache answers (no forced refresh, entry
\* not expired) resolves to the cached list also without a client;
\* syncLearningsFile resolves to false in all three cases; startMessageCapture
\* returns false without starting a trajectory when no client is initialised,
\* and once it has reached its sync it starts the trajectory whatever the sync
\* does.
C24_FailureYieldsNoLearnings ==
  /\ \A params \in LearningsParams, response \in Responses :
       LET r == getActiveLearnings(World, params, response) IN
       IF cacheFresh(World, params)
       THEN /\ r.result = cacheGet(learningCache, learningKeyOf(params))[1].learnings
            /\ r.w = World
       ELSE (clientInstance = Null \/ FetchFails(response)) => r.result = <<>>
  /\ SyncResolvesFalse
  /\ SuspendedCaptureStarts
  /\ clientInstance = Null =>
       \A s \in Sessions, enabled, excluded \in BOOLEAN :
         skipsCapture(World, s, enabled, excluded)

\* getActiveLearnings has just resolved to the empty list after a fetch that
\* failed or found nothing, while a startMessageCapture is suspended at its sync
\* and another has started its trajectory
C24_Witness ==
  /\ last.op = "getActiveLearnings"
  /\ last.arg = "no state"
  /\ \E i \in DOMAIN learningCache : learningCache[i].learnings = <<>>
  /\ \E c \in Calls : captures[c] # Null
  /\ activeTrajectories # EmptyMap

(***************************************************************************)
(* C25                                                                     *)
(***************************************************************************)
\* the debounce state of every session other than s is in w as it is now
OthersUntouched(w, s) ==
  \A t \in Sessions \ {s} :
    /\ Has(w.llmDebounceTimers, t) = Has(llmDebounceTimers, t)
    /\ Has(llmDebounceTimers, t) => w.llmDebounceTimers[t] = llmDebounceTimers[t]
    /\ Has(w.llmPendingData, t) = Has(llmPendingData, t)
    /\ Has(llmPendingData, t) => w.llmPendingData[t] = llmPendingData[t]
    /\ Has(w.lastLLMTextBySession, t) = Has(lastLLMTextBySession, t)
    /\ Has(lastLLMTextBySession, t) => w.lastLLMTextBySession[t] = lastLLMTextBySession[t]

\* C25: flushPendingLLMEvents(s) leaves s without timer, pending payload and
\* recorded text; it creates exactly one llm_call event, carrying the pending
\* text, when a payload is pending and the trajectory of s is active, and no
\* event otherwise; a second call changes nothing, the callback of the cancelled
\* timer would find nothing to emit, and the debounce state of the other
\* sessions stays as it is.
C25_ForcedSettlement ==
  \A s \in Sessions :
    LET w == flushPendingLLMEvents(World, s) IN
    /\ ~Has(w.llmDebounceTimers, s)
    /\ ~Has(w.llmPendingData, s)
    /\ ~Has(w.lastLLMTextBySession, s)
    /\ IF Has(llmPendingData, s) /\ hasActiveTrajectory(World, s)
       THEN /\ Created(w) = Append(CreatedEvents, Newest(w))
            /\ Newest(w).event_type = "llm_call"
            /\ Newest(w).run_id = activeTrajectories[s].runId
            /\ Newest(w).payload.response = <<[text |-> llmPendingData[s].text]>>
       ELSE Created(w) = CreatedEvents
    /\ flushPendingLLMEvents(w, s) = w
    /\ Created(llmDebounceTimeout(w, s)) = Created(w)
    /\ OthersUntouched(w, s)
    /\ w.activeTrajectories = activeTrajectories

\* flushPendingLLMEvents has just emitted the pending text of a session while
\* another session keeps its pending text and timer
C25_Witness ==
  /\ last.op = "flushPendingLLMEvents" /\ last.active /\ last.arg = "pending"
  /\ ~Has(llmPendingData, last.sessionKey)
  /\ CreatedEvents[Len(CreatedEvents)].event_type = "llm_call"
  /\ CreatedEvents[Len(CreatedEvents)].payload.response # <<>>
  /\ \E t \in Sessions \ {last.sessionKey} :
       Has(llmPendingData, t) /\ Has(llmDebounceTimers, t)

(***************************************************************************)
(* C26                                                                     *)
(***************************************************************************)
\* C26: when the debounce timer of a session fires on an active trajectory, one
\* llm_call event carrying the pending text is created and the session is left
\* without pending payload, timer handle and recorded longest text, so that any
\* text fragment arriving afterwards becomes pending.
C26_FireClearsEntry ==
  \A s \in Sessions :
    (Has(llmDebounceTimers, s) /\ Has(llmPendingData, s) /\ hasActiveTrajectory(World, s)) =>
      LET w == llmDebounceTimeout(World, s) IN
      /\ Created(w) = Append(CreatedEvents, Newest(w))
      /\ Newest(w).event_type = "llm_call"
      /\ Newest(w).payload.response = <<[text |-> llmPendingData[s].text]>>
      /\ ~Has(w.llmPendingData, s)
      /\ ~Has(w.llmDebounceTimers, s)
      /\ ~Has(w.lastLLMTextBySession, s)
      /\ \A text \in Texts :
           Has(handleAssistantEvent(w, s, [text |-> text, thinking |-> <<>>,
                                           model |-> Undefined, provider |-> Undefined,
                                           usage |-> <<>>]).llmPendingData, s)

(***************************************************************************)
(* C27                                                                     *)
(***************************************************************************)
\* C27: a forwarded assistant signal whose usage has a nonzero input or output
\* count creates exactly one llm_call event, carrying that usage and no
\* response text, and leaves the pending payloads, the recorded texts and the
\* debounce timers of all sessions as they are, also when it carries text.
C27_UsageBypassesDebouncer ==
  \A event \in AssistantEvents :
    (unsubscribe /\ Forwarded(World, event) /\ hasUsage(event.data)) =>
      LET s == resolvedSessionKey(World, event)
          w == handleAgentEvent(World, event) IN
      /\ Created(w) = Append(CreatedEvents, Newest(w))
      /\ Newest(w).event_type = "llm_call"
      /\ Newest(w).run_id = activeTrajectories[s].runId
      /\ Newest(w).payload.usage = event.data.usage
      /\ Newest(w).payload.response = <<>>
      /\ Newest(w).payload.reasoning = <<>>
      /\ w.llmPendingData = llmPendingData
      /\ w.lastLLMTextBySession = lastLLMTextBySession
      /\ w.llmDebounceTimers = llmDebounceTimers

\* a usage signal has just been processed for a session whose text fragment is
\* pending with its timer
C27_Witness ==
  /\ last.op = "assistant" /\ last.active /\ last.arg = <<>>
  /\ Has(llmPendingData, last.sessionKey)
  /\ Has(llmDebounceTimers, last.sessionKey)
  /\ CreatedEvents # <<>>
  /\ CreatedEvents[Len(CreatedEvents)].event_type = "llm_call"
  /\ CreatedEvents[Len(CreatedEvents)].payload.usage # <<>>

(***************************************************************************)
(* C28                                                                     *)
(***************************************************************************)
\* the handler, given the event, created one llm_call event carrying the
\* reasoning of the event and left every debounce timer, pending payload and
\* recorded text as it is
ReasoningEmitted(event) ==
  LET s == resolvedSessionKey(World, event)
      w == handleAgentEvent(World, event) IN
  /\ Created(w) = Append(CreatedEvents, Newest(w))
  /\ Newest(w).event_type = "llm_call"
  /\ Newest(w).run_id = activeTrajectories[s].runId
  /\ Newest(w).payload.reasoning = <<[thinking |-> event.data.thinking]>>
  /\ w.llmDebounceTimers = llmDebounceTimers
  /\ w.llmPendingData = llmPendingData
  /\ w.lastLLMTextBySession = lastLLMTextBySession

\* C28 as stated: every forwarded assistant signal that carries reasoning text
\* and no usage counts creates its own llm_call event carrying that reasoning
\* while the signal is processed, and no debounce timer is started or reset.
C28_ReasoningNeverDebounced ==
  \A event \in AssistantEvents :
    (/\ unsubscribe /\ Forwarded(World, event)
     /\ ~hasUsage(event.data) /\ event.data.thinking # <<>>)
    => ReasoningEmitted(event)

\* C28 amended: every forwarded assistant signal that carries reasoning text,
\* no response text and no usage counts creates its own llm_call event carrying
\* that reasoning while the signal is processed, and no debounce timer is
\* started or reset; a signal that carries reasoning together with response
\* text creates no event: its text goes to the debouncer and its reasoning is
\* not recorded.
C28_ReasoningAloneNeverDebounced ==
  \A event \in AssistantEvents :
    (/\ unsubscribe /\ Forwarded(World, event)
     /\ ~hasUsage(event.data) /\ event.data.thinking # <<>>)
    => IF event.data.text = <<>> THEN ReasoningEmitted(event)
       ELSE LET s == resolvedSessionKey(World, event)
                w == handleAgentEvent(World, event) IN
            /\ Created(w) = CreatedEvents
            /\ (Has(w.llmPendingData, s) /\ w.llmPendingData[s].text = event.data.text)
                 \/ startsWith(lastTextOf(s), event.data.text)

\* the one signal processed so far carried reasoning alone and has become an
\* llm_call event, with no debounce timer anywhere
C28_Witness ==
  /\ last.op = "assistant" /\ last.active /\ last.arg = <<>>
  /\ signalSeq = 1
  /\ llmDebounceTimers = EmptyMap
  /\ CreatedEvents # <<>>
  /\ CreatedEvents[Len(CreatedEvents)].event_type = "llm_call"
  /\ CreatedEvents[Len(CreatedEvents)].payload.reasoning = <<[thinking |-> <<"t">>]>>

(***************************************************************************)
(* C29                                                                     *)
(***************************************************************************)
\* C29: while a run id has a recorded session key, no signal changes the key:
\* after any signal is handled the run id either has no entry (purged) or maps
\* to the session key it mapped to before.
C29_RunMapsToOneSession ==
  \A event \in AgentEvents :
    LET w == handleAgentEvent(World, event) IN
    \A runId \in RunIds :
      (unsubscribe /\ Has(runIdToSession, runId) /\ Has(w.runIdToSession, runId))
      => w.runIdToSession[runId] = runIdToSession[runId]

(***************************************************************************)
(* C30                                                                     *)
(***************************************************************************)
\* C30: after a result, end or error signal that names a tool-call id has been
\* handled by the subscribed listener, neither a start time nor an input is
\* recorded under that id.
C30_SpanEndsWithTerminalSignal ==
  \A event \in ToolEvents :
    LET w == handleAgentEvent(World, event) IN
    (/\ unsubscribe /\ clientInstance # Null
     /\ event.data.phase \in TerminalPhases
     /\ event.data.toolCallId # Undefined)
    => /\ ~Has(w.toolStartTimes, event.data.toolCallId)
       /\ ~Has(w.toolInputsById, event.data.toolCallId)

(***************************************************************************)
(* C31                                                                     *)
(***************************************************************************)
\* C31: a forwarded terminal tool signal with a tool name creates one tool_call
\* event; when the phase of the signal is error or its isError flag is set the
\* event has no output and has an error message, otherwise the event has the
\* result of the signal as its output and no error message.
C31_ToolOutcome ==
  \A event \in ToolEvents :
    (/\ unsubscribe /\ Forwarded(World, event)
     /\ event.data.phase \in TerminalPhases /\ event.data.name # Undefined)
    => LET w == handleAgentEvent(World, event)
           payload == Newest(w).payload IN
       /\ Created(w) = Append(CreatedEvents, Newest(w))
       /\ Newest(w).event_type = "tool_call"
       /\ IF event.data.phase = "error" \/ event.data.isError
          THEN payload.tool_output = Undefined /\ payload.error # Undefined
          ELSE payload.tool_output = event.data.result /\ payload.error = Undefined

\* an end signal with the isError flag set has just become a tool_call event
\* with an error message and no output
C31_Witness ==
  /\ last.op = "tool" /\ last.arg.phase = "end" /\ last.active
  /\ CreatedEvents # <<>>
  /\ Newest(World).event_type = "tool_call"
  /\ Newest(World).payload.error = "r"
  /\ Newest(World).payload.tool_output = Undefined

(***************************************************************************)
(* C32                                                                     *)
(***************************************************************************)
\* C32: every event has the run id, the task id and the agent id of the
\* trajectory the store held for the session of the call that created it (the
\* new trajectory when the call is startTrajectory), and its invocation id is
\* made of its run id and its task id; events with the same run id have the same
\* task id, agent id and invocation id; every start takes a run id greater than
\* the run ids of all starts before it.
C32_EventIdentity ==
  /\ [](/\ \A i \in DOMAIN CreatedEvents :
             CreatedEvents[i].invocation_id =
               <<CreatedEvents[i].run_id, CreatedEvents[i].task_id>>
        /\ \A i, j \in DOMAIN CreatedEvents :
             CreatedEvents[i].run_id = CreatedEvents[j].run_id =>
               /\ CreatedEvents[i].task_id = CreatedEvents[j].task_id
               /\ CreatedEvents[i].agent_id = CreatedEvents[j].agent_id
        /\ \A i, j \in DOMAIN CreatedEvents :
             (/\ i < j
              /\ CreatedEvents[i].event_type = "task_start"
              /\ CreatedEvents[j].event_type = "task_start") =>
               CreatedEvents[i].run_id < CreatedEvents[j].run_id)
  /\ [][\A i \in DOMAIN CreatedEvents' \ DOMAIN CreatedEvents :
          LET s == last'.sessionKey
              trajectory == IF last'.op = "startTrajectory"
                            THEN activeTrajectories'[s] ELSE activeTrajectories[s] IN
          /\ CreatedEvents'[i].run_id = trajectory.runId
          /\ CreatedEvents'[i].task_id = trajectory.taskId
          /\ CreatedEvents'[i].agent_id = trajectory.agentId]_vars

\* a tool call has just been logged for the second of two trajectories, each of
\* which has events
C32_Witness ==
  /\ last.op = "logToolCall" /\ last.active
  /\ Len(OfType(CreatedEvents, "task_start")) = 2
  /\ CreatedEvents[Len(CreatedEvents)].event_type = "tool_call"
  /\ CreatedEvents[Len(CreatedEvents)].run_id = runIdCounter - 1
  /\ CreatedEvents[1].run_id # runIdCounter - 1

(***************************************************************************)
(* C33                                                                     *)
(***************************************************************************)
\* C33: the events list of every trajectory in the store holds, in creation
\* order, the events created for that trajectory so far.
C33_EventListRecordsEvents ==
  \A s \in DOMAIN activeTrajectories :
    activeTrajectories[s].events = OfRun(CreatedEvents, activeTrajectories[s].runId)

(***************************************************************************)
(* C34                                                                     *)
(***************************************************************************)
\* C34: whenever the buffer is empty, flushBuffer changes nothing: no batch is
\* swapped out or handed to the transport, the buffer is empty and no flush
\* timer is set afterwards, and a second flushBuffer gives the same state again.
C34_FlushEmptyIsNoOp ==
  eventBuffer = <<>> =>
    LET w == flushBuffer(World) IN
    /\ w = World
    /\ w.flushed = flushed
    /\ w.eventBuffer = <<>>
    /\ w.flushTimer = 0
    /\ flushBuffer(w) = w

\* flushBuffer has just been called with a client set and nothing in the buffer
C34_Witness ==
  /\ last.op = "flushBuffer"
  /\ clientInstance # Null
  /\ eventBuffer = <<>>
  /\ flushed = <<>>

(***************************************************************************)
(* C35                                                                     *)
(***************************************************************************)
\* C35: in every state between two operations a flush timer is set exactly when
\* the buffer holds an event, and the buffer holds fewer than maxSize events.
C35_TimerIffBuffered ==
  /\ (flushTimer # 0) <=> (eventBuffer # <<>>)
  /\ Len(eventBuffer) < maxSize

\* after an earlier batch has left the buffer, a tool signal has just enqueued
\* an event, which waits in the buffer with the flush timer set
C35_Witness ==
  /\ last.op = "tool" /\ last.active
  /\ flushed # <<>>
  /\ eventBuffer # <<>>
  /\ CreatedEvents[Len(CreatedEvents)].event_type = "tool_call"
  /\ flushTimer # 0

(***************************************************************************)
(* C36                                                                     *)
(***************************************************************************)
\* the text received for the session s waits for the same timer before and
\* after the step
Waits(s) ==
  /\ Has(llmPendingData, s) /\ Has(llmDebounceTimers, s)
  /\ Has(llmPendingData', s) /\ Has(llmDebounceTimers', s)
  /\ llmPendingData'[s] = llmPendingData[s]
  /\ llmDebounceTimers'[s] = llmDebounceTimers[s]

\* C36: a text is received only under an active trajectory of its session;
\* while the text waits for its timer no other trajectory takes the place of
\* that one on the session; and the llm_call event a firing timer creates has
\* the run id of the trajectory of the session and the waiting text. So the
\* event of a text has the run id of the trajectory the text was received under.
C36_TextStaysWithItsTrajectory ==
  [][\A s \in Sessions :
       /\ (Has(llmPendingData', s) /\ ~Waits(s)) =>
            (last'.op = "assistant" => (last'.sessionKey = s => last'.active))
       /\ (Waits(s) /\ Has(activeTrajectories', s)) =>
            /\ Has(activeTrajectories, s)
            /\ activeTrajectories'[s].runId = activeTrajectories[s].runId
       /\ (last'.op = "llmDebounceTimer" /\ last'.sessionKey = s
            /\ Len(CreatedEvents') > Len(CreatedEvents)) =>
            /\ Has(activeTrajectories, s) /\ Has(llmPendingData, s)
            /\ CreatedEvents'[Len(CreatedEvents')].run_id = activeTrajectories[s].runId
            /\ CreatedEvents'[Len(CreatedEvents')].payload.response =
                 <<[text |-> llmPendingData[s].text]>>]_vars

(***************************************************************************)
(* C37                                                                     *)
(***************************************************************************)
\* the n-th event created is in the buffer, and has left it: the events leave
\* the buffer in the order they were created
Buffered(n) == Len(FlushedEvents) < n /\ n <= Len(CreatedEvents)
Left(n) == n <= Len(FlushedEvents)

\* C37: when the flush timer fires as long as it is set, every event in the
\* buffer is out of the buffer at some later moment, whatever is enqueued or
\* flushed meanwhile and whether the transport accepts or rejects the batches.
C37_BufferedEventLeaves ==
  \A n \in 1..MaxEvents : Buffered(n) ~> Left(n)

\* after the transport rejected the first batch, the flush timer has just taken
\* the events enqueued since out of the buffer
C37_Witness ==
  /\ last.op = "flushTimer"
  /\ Len(flushed) = 2
  /\ flushed[1].fate = "rejected"
  /\ flushed[2].events # <<>>
  /\ eventBuffer = <<>>

(***************************************************************************)
(* C38                                                                     *)
(***************************************************************************)
\* C38: in every state between two operations the sessions with a debounce
\* timer are the sessions with a pending payload, a session has one timer
\* handle at most and no two sessions share one, and the text of a pending
\* payload is the text recorded as the last one of its session.
C38_DebounceState ==
  /\ DOMAIN llmDebounceTimers = DOMAIN llmPendingData
  /\ \A s, t \in DOMAIN llmDebounceTimers :
       llmDebounceTimers[s] = llmDebounceTimers[t] => s = t
  /\ \A s \in DOMAIN llmPendingData :
       /\ Has(lastLLMTextBySession, s)
       /\ llmPendingData[s].text = lastLLMTextBySession[s]

\* a second, longer fragment has just replaced the pending text of a session
\* and restarted its timer
C38_Witness ==
  /\ last.op = "assistant" /\ last.active
  /\ signalSeq = 2
  /\ Has(llmPendingData, last.sessionKey)
  /\ Len(llmPendingData[last.sessionKey].text) = 2
  /\ llmDebounceTimers[last.sessionKey] = timerSeq
  /\ timerSeq >= 3

(***************************************************************************)
(* C39                                                                     *)
(***************************************************************************)
\* the batches flushBuffer swapped out while no client was set
Discarded == {i \in DOMAIN flushed : flushed[i].fate = "discarded"}

\* C39: flushBuffer with events in the buffer and no client set leaves the
\* buffer empty and no flush timer set and hands nothing to a transport: the
\* events are swapped out as a discarded batch; a discarded batch stays
\* discarded, and none of its events is in the buffer or in a batch handed to a
\* transport afterwards.
C39_DiscardWithoutClient ==
  /\ []((clientInstance = Null /\ eventBuffer # <<>>) =>
          LET w == flushBuffer(World) IN
          /\ w.eventBuffer = <<>>
          /\ w.flushTimer = 0
          /\ w.flushed = Append(flushed, [events |-> eventBuffer, fate |-> "discarded"])
          /\ [w EXCEPT !.eventBuffer = eventBuffer, !.flushTimer = flushTimer,
                       !.flushed = flushed] = World)
  /\ [](\A i \in Discarded :
          Ids(flushed[i].events) \cap (Ids(HandedEvents) \cup Ids(eventBuffer)) = {})
  /\ [][\A i \in Discarded : flushed'[i] = flushed[i]]_vars

\* the flush timer has just handed a batch to the client that was set after an
\* earlier batch had been discarded
C39_Witness ==
  /\ last.op = "flushTimer"
  /\ Len(flushed) = 2
  /\ flushed[1].fate = "discarded"
  /\ flushed[2].fate = "inflight"
  /\ eventBuffer = <<>>

(***************************************************************************)
(* C40                                                                     *)
(***************************************************************************)
\* C40: when the debounce timer of a session without an active trajectory
\* fires, the callback removes the pending payload and the timer handle of the
\* session and changes nothing else: no event is created, the buffer, the
\* batches and the flush timer stay as they are.
C40_FireWithoutTrajectory ==
  \A s \in Sessions :
    (Has(llmDebounceTimers, s) /\ ~hasActiveTrajectory(World, s)) =>
      LET w == llmDebounceTimeout(World, s) IN
      /\ ~Has(w.llmPendingData, s)
      /\ ~Has(w.llmDebounceTimers, s)
      /\ Created(w) = CreatedEvents
      /\ w = [World EXCEPT !.llmPendingData = Del(@, s),
                           !.llmDebounceTimers = Del(@, s)]

\* the timer of a session whose trajectory has ended has just fired: the
\* session has no pending payload and no timer, and the task_end is the newest
\* event
C40_Witness ==
  /\ last.op = "llmDebounceTimer" /\ ~last.active
  /\ ~Has(llmPendingData, last.sessionKey)
  /\ ~Has(llmDebounceTimers, last.sessionKey)
  /\ Has(lastLLMTextBySession, last.sessionKey)
  /\ CreatedEvents # <<>>
  /\ CreatedEvents[Len(CreatedEvents)].event_type = "task_end"
====
